---- MODULE Spec2Model ----
(***************************************************************************)
(* Booking dialogue and booking commit of the cosmetology clinic bot.       *)
(*                                                                         *)
(* Time is counted in whole hours; hour 0 is a Monday 08:00 local time, so *)
(* the two candidate slots below start on Monday 11:00 and Tuesday 09:00.   *)
(* Every handler is an asyncio coroutine: the steps of one handler run     *)
(* between its await points and handlers of different updates interleave   *)
(* there (the dispatcher runs every update as its own task and no          *)
(* per-user lock is taken anywhere in the booking handlers).               *)
(***************************************************************************)
EXTENDS Integers, Sequences, FiniteSets, TLC

\* ---------------------------------------------------------------- bounds
MaxReq == 2        \* invocations of final_booking_confirmation_handler
MaxNow == 1        \* the clock runs from hour 0 to hour MaxNow
MaxFlows == 2      \* times a user may reach the final confirmation stage
MaxFetches == 2    \* booking_confirmation_handler invocations of a user in flight

\* ------------------------------------------------------------- constants
SlotDuration == 1      \* slot_duration_minutes = 60
DayBeforeLead == 24    \* timedelta(days=1)
HourBeforeLead == 2    \* timedelta(hours=2)
MinLeadHours == 2      \* now + timedelta(hours=2)

Users == {"u1", "u2"}
Req == 1..MaxReq
SlotStarts == {3, 25}
Procedures == {"cleaning"}
Contacts == {"Anna\n+375291234567"}

NoSlot == 0 - 1
NoEvent == 0
NoBooking == 0
NoUser == "nobody"

VARIABLES
    now,                 \* wall clock, in hours
    calendarConfigured,  \* hasattr(config, 'GOOGLE_CREDENTIALS_PATH')
    stage,               \* FSM state of every user
    data,                \* FSM data of every user
    flowNo,              \* how many times the user entered final confirmation
    calendar,            \* events of the external calendar
    eventSeq,            \* number of events inserted so far
    bookings,            \* table bookings, in insertion order (id = position)
    reminders,           \* table reminders, in insertion order
    fetch,               \* progress of booking_confirmation_handler past its awaits
    req,                 \* the invocations of the final confirmation handler
    poll,                \* the reminder poller: its position and fetched list
    message,             \* the text handed to classify_intent
    intent,              \* what classify_intent returned for it
    gpt_intent,          \* what the external model call returned, if it was made
    clock,               \* UTC time in seconds
    sessions_cache,      \* SessionManager.sessions_cache
    calls,               \* handler invocations that used the session so far
    classify_calls,      \* classify_intent invocations made by process_message
    prev_classified,     \* per user: the query classified last, and when
    wall,                \* local time of a get_available_slots call, in minutes
    busy_passed,         \* the busy intervals handed to the slot generator
    slots_returned,      \* the starts of the slots it returned, in minutes
    slot_given,          \* a Slot object
    slot_data,           \* its dictionary, as serialize or the state file gives it
    slot_back,           \* the Slot deserialize made of that dictionary
    contact_text,        \* the contact_info of the dialogue state
    client_name,         \* the name the commit derived from it
    client_phone,        \* the phone the commit derived from it
    parse_error,         \* the exception the derivation raised, if any
    pm_return,           \* what the last process_message call gave its caller
    gen_request,         \* the intent and the message of a generate_response call
    gen_pc,              \* where that call stands
    gen_api,             \* what the last completion request did
    gen_attempts,        \* completion requests made for the call
    gen_response,        \* the text the call returned
    users                \* table users: the telegram ids that have a row

\* the consultation services and the users table, which the booking handlers
\* never touch
classifier == <<message, intent, gpt_intent>>
sessions == <<clock, sessions_cache, calls, classify_calls, prev_classified, pm_return>>
availability == <<wall, busy_passed, slots_returned>>
codec == <<slot_given, slot_data, slot_back>>
parsing == <<contact_text, client_name, client_phone, parse_error>>
generation == <<gen_request, gen_pc, gen_api, gen_attempts, gen_response>>
services == <<classifier, sessions, availability, codec, parsing, generation, users>>

vars == <<now, calendarConfigured, stage, data, flowNo, calendar, eventSeq,
          bookings, reminders, fetch, req, poll, services>>

\* no message is being classified
ClassifierIdle == message = "" /\ intent = "unset" /\ gpt_intent = "not_called"
\* nobody has a session
SessionsIdle ==
    /\ clock = 0
    /\ sessions_cache = [u \in Users |-> <<>>]
    /\ calls = 0
    /\ classify_calls = 0
    /\ prev_classified = [u \in Users |-> [query |-> "None", at |-> 0]]
    /\ pm_return = [outcome |-> "none", text |-> "unset", raised |-> FALSE]

\* no slot list was asked for in minutes
AvailabilityIdle == wall = 0 /\ busy_passed = {} /\ slots_returned = <<>>

\* no Slot is being converted
CodecIdle ==
    /\ slot_given = [kind |-> "None"]
    /\ slot_data = [kind |-> "None"]
    /\ slot_back = [kind |-> "None"]

ParsingIdle ==
    /\ contact_text = "idle"
    /\ client_name = "unset"
    /\ client_phone = "unset"
    /\ parse_error = "unset"
GenerationIdle ==
    /\ gen_request = [intent |-> "None", user_message |-> "None"]
    /\ gen_pc = "idle"
    /\ gen_api = "none"
    /\ gen_attempts = 0
    /\ gen_response = "unset"
ServicesIdle ==
    /\ ClassifierIdle /\ SessionsIdle /\ AvailabilityIdle /\ CodecIdle /\ ParsingIdle
    /\ GenerationIdle

\* ------------------------------------------------------ conversation state
Stages == {"none", "booking_procedure_confirmation", "booking_time_selection",
           "booking_contact_info", "booking_final_confirmation"}

EmptyData == [procedure |-> "None", available_slots |-> <<>>,
              selected_slot |-> NoSlot, contact_info |-> "None"]

\* the interval test of create_booking and _generate_day_slots
Overlaps(aStart, aEnd, bStart, bEnd) == aStart < bEnd /\ aEnd > bStart

BusyIntervals == {<<e.start, e.start + SlotDuration>> : e \in calendar}

IsOccupied(start, busy) ==
    \E b \in busy : Overlaps(start, start + SlotDuration, b[1], b[2])

RECURSIVE SortedSeq(_)
SortedSeq(S) ==
    IF S = {} THEN <<>>
    ELSE LET m == CHOOSE x \in S : \A y \in S : x <= y
         IN  <<m>> \o SortedSeq(S \ {m})

\* get_available_slots: candidates not earlier than now + 2h that overlap no
\* busy interval, in chronological order
AvailableSlots(busy) ==
    SortedSeq({s \in SlotStarts : s >= now + MinLeadHours /\ ~IsOccupied(s, busy)})

\* the invocations of booking_confirmation_handler a user may have in flight
\* (two taps on the confirm button are two updates, handled as two tasks)
Tasks == 1..MaxFetches
NoFetch == [t \in Tasks |-> "none"]

InitReq == [pc |-> "idle", user |-> NoUser, flow |-> 0,
            selected_slot |-> NoSlot, procedure |-> "None", contact_info |-> "None",
            calendar_event_id |-> NoEvent, booking_status |-> "pending",
            booking_id |-> NoBooking,
            calResult |-> "none", notice |-> "none", remFailed |-> FALSE,
            outcome |-> "none"]

\* the poller between two passes
InitPoll == [pc |-> "sleep", queue |-> <<>>]

\* the state after construction: nobody is in a dialogue, the tables are empty
InitDialogue ==
    /\ now = 0
    /\ calendarConfigured \in BOOLEAN
    /\ stage = [u \in Users |-> "none"]
    /\ data = [u \in Users |-> EmptyData]
    /\ flowNo = [u \in Users |-> 0]
    /\ calendar = {}
    /\ eventSeq = 0
    /\ bookings = <<>>
    /\ reminders = <<>>
    /\ fetch = [u \in Users |-> NoFetch]
    /\ req = [r \in Req |-> InitReq]
    /\ poll = InitPoll
    /\ users = Users
    /\ ServicesIdle

\* the conversation state a user has built when the final confirmation is
\* shown: the procedure, the slots offered at hour 0 by an empty calendar, one
\* of them selected, the contact text
FinalData(slot) ==
    [procedure |-> "cleaning", available_slots |-> SortedSeq(SlotStarts),
     selected_slot |-> slot, contact_info |-> "Anna\n+375291234567"]

\* the booking commit starts from the dialogue's results: every user is either
\* outside a dialogue or looking at the final confirmation of a chosen slot
Init ==
    /\ now = 0
    /\ calendarConfigured \in BOOLEAN
    /\ \E chosen \in [Users -> SlotStarts \cup {NoSlot}] :
         /\ stage = [u \in Users |-> IF chosen[u] = NoSlot THEN "none"
                                     ELSE "booking_final_confirmation"]
         /\ data = [u \in Users |-> IF chosen[u] = NoSlot THEN EmptyData
                                    ELSE FinalData(chosen[u])]
         /\ flowNo = [u \in Users |-> IF chosen[u] = NoSlot THEN 0 ELSE 1]
    /\ calendar = {}
    /\ eventSeq = 0
    /\ bookings = <<>>
    /\ reminders = <<>>
    /\ fetch = [u \in Users |-> NoFetch]
    /\ req = [r \in Req |-> InitReq]
    /\ poll = InitPoll
    /\ users = Users
    /\ ServicesIdle

Tick ==
    /\ now < MaxNow
    /\ now' = now + 1
    /\ UNCHANGED <<calendarConfigured, services, poll, stage, data, flowNo, calendar, eventSeq,
                   bookings, reminders, fetch, req>>

\* ------------------------------------------------------- dialogue handlers
durable == <<calendar, eventSeq, bookings, reminders>>

\* FSMContext.clear(): set_state(None) and set_data({})
StageAfterClear(st, u) == [st EXCEPT ![u] = "none"]
DataAfterClear(d, u) == [d EXCEPT ![u] = EmptyData]

\* a clear that resets the stage and keeps the stored data
ClearStageOnly(u) ==
    /\ stage' = StageAfterClear(stage, u)
    /\ data' = data

ClearState(u) ==
    /\ stage' = StageAfterClear(stage, u)
    /\ data' = DataAfterClear(data, u)

\* booking_start_handler: registered without a state filter
BookingStart(u, p) ==
    /\ data' = [data EXCEPT ![u].procedure = p]
    /\ stage' = [stage EXCEPT ![u] = "booking_procedure_confirmation"]
    /\ UNCHANGED <<now, calendarConfigured, services, poll, flowNo, durable, fetch, req>>

\* booking_confirmation_handler up to the availability request
BookingConfirm(u, t) ==
    /\ stage[u] = "booking_procedure_confirmation"
    /\ fetch[u][t] = "none"
    /\ \A s \in Tasks : s < t => fetch[u][s] # "none"
    /\ IF ~calendarConfigured
         THEN ClearState(u) /\ UNCHANGED fetch
         ELSE fetch' = [fetch EXCEPT ![u][t] = "running"] /\ UNCHANGED <<stage, data>>
    /\ UNCHANGED <<now, calendarConfigured, services, poll, flowNo, durable, req>>

\* booking_confirmation_handler once get_available_slots has returned; the
\* busy list is the calendar's, or empty after an HttpError, and any other
\* exception inside get_available_slots yields no slots. Without slots the
\* handler clears the state and returns; otherwise update_data stores the
\* list and the handler awaits edit_text. fetch keeps how the list was got.
SlotsFetched(u, t) ==
    /\ fetch[u][t] = "running"
    /\ \E listing \in {"ok", "http_error", "error"} :
         LET slots == IF listing = "error" THEN <<>>
                      ELSE AvailableSlots(IF listing = "ok" THEN BusyIntervals ELSE {})
         IN  IF slots = <<>>
               THEN /\ ClearState(u)
                    /\ fetch' = [fetch EXCEPT ![u][t] = "none"]
               ELSE /\ data' = [data EXCEPT ![u].available_slots = slots]
                    /\ fetch' = [fetch EXCEPT ![u][t] = listing]
                    /\ UNCHANGED stage
    /\ UNCHANGED <<now, calendarConfigured, services, poll, flowNo, durable, req>>

\* booking_confirmation_handler after the slot keyboard was sent:
\* set_state(booking_time_selection), whatever the stage is by now
ShowTimeSlots(u, t) ==
    /\ fetch[u][t] \in {"ok", "http_error"}
    /\ fetch' = [fetch EXCEPT ![u][t] = "none"]
    /\ stage' = [stage EXCEPT ![u] = "booking_time_selection"]
    /\ UNCHANGED <<now, calendarConfigured, services, poll, data, flowNo, durable, req>>

\* time_pagination_handler: the page only selects the buttons drawn; without
\* a stored slot list the handler clears the state
PageInputs == {0, 1, 7}

TimePagination(u, page) ==
    /\ stage[u] = "booking_time_selection"
    /\ IF data[u].available_slots = <<>>
         THEN ClearState(u)
         ELSE UNCHANGED <<stage, data>>
    /\ UNCHANGED <<now, calendarConfigured, services, poll, flowNo, durable, fetch, req>>

\* serialized_slots[slot_index] as Python evaluates it: 0-based, a negative
\* index counts from the end; NoSlot stands for IndexError
PyIndex(slots, i) ==
    IF i >= 0 /\ i < Len(slots) THEN slots[i + 1]
    ELSE IF i < 0 /\ 0 - i <= Len(slots) THEN slots[Len(slots) + i + 1]
    ELSE NoSlot

\* the text after "time_" in the callback data, and int() of it; NoInt stands
\* for ValueError
SlotIndexInputs == {"-1", "0", "1", "2", "x"}
NoInt == 0 - 99
PyInt(text) ==
    CASE text = "-1" -> 0 - 1
      [] text = "0" -> 0
      [] text = "1" -> 1
      [] text = "2" -> 2
      [] OTHER -> NoInt

\* time_slot_selected_handler
TimeSlotSelected(u, text) ==
    /\ stage[u] = "booking_time_selection"
    /\ LET serialized_slots == data[u].available_slots
           slot_index == PyInt(text)
       IN  IF slot_index = NoInt
                \/ slot_index >= Len(serialized_slots)
                \/ PyIndex(serialized_slots, slot_index) = NoSlot
             THEN UNCHANGED <<stage, data>>
             ELSE /\ data' = [data EXCEPT ![u].selected_slot =
                                  PyIndex(serialized_slots, slot_index)]
                  /\ stage' = [stage EXCEPT ![u] = "booking_contact_info"]
    /\ UNCHANGED <<now, calendarConfigured, services, poll, flowNo, durable, fetch, req>>

\* contact_info_handler
ContactInfo(u, text) ==
    /\ stage[u] = "booking_contact_info"
    /\ flowNo[u] < MaxFlows
    /\ data' = [data EXCEPT ![u].contact_info = text]
    /\ IF data[u].selected_slot = NoSlot
         THEN UNCHANGED <<stage, flowNo>>
         ELSE /\ stage' = [stage EXCEPT ![u] = "booking_final_confirmation"]
              /\ flowNo' = [flowNo EXCEPT ![u] = @ + 1]
    /\ UNCHANGED <<now, calendarConfigured, services, poll, durable, fetch, req>>

\* change_time_handler
ChangeTime(u) ==
    /\ stage[u] = "booking_final_confirmation"
    /\ stage' = [stage EXCEPT ![u] = "booking_time_selection"]
    /\ UNCHANGED <<now, calendarConfigured, services, poll, data, flowNo, durable, fetch, req>>

\* a cancel that is handled only inside a dialogue
CancelBookingInDialogue(u) ==
    /\ stage[u] # "none"
    /\ ClearState(u)
    /\ UNCHANGED <<now, calendarConfigured, services, poll, flowNo, durable, fetch, req>>

\* universal_cancel_booking_handler and booking_cancel_handler
CancelBooking(u) ==
    /\ ClearState(u)
    /\ UNCHANGED <<now, calendarConfigured, services, poll, flowNo, durable, fetch, req>>

\* ------------------------------------------- final_booking_confirmation_handler
dialogue == <<stage, data, flowNo, fetch>>

Set(r, fields) == req' = [req EXCEPT ![r] = fields]

\* the handler has returned (or raised): its local variables are gone
Done(r, u, outcome) ==
    Set(r, [InitReq EXCEPT !.pc = "done", !.user = u, !.flow = req[r].flow,
                           !.outcome = outcome])

\* the StateFilter lets the update through, then callback.answer() and the
\* "creating..." edit_text run outside the try block
Dispatch(r, u) ==
    /\ req[r].pc = "idle"
    /\ \A q \in Req : q < r => req[q].pc # "idle"
    /\ stage[u] = "booking_final_confirmation"
    /\ \E sent \in BOOLEAN :
         Set(r, IF sent
                  THEN [req[r] EXCEPT !.pc = "get_data", !.user = u, !.flow = flowNo[u]]
                  ELSE [InitReq EXCEPT !.pc = "done", !.user = u, !.flow = flowNo[u],
                                       !.outcome = "raised"])
    /\ UNCHANGED <<now, calendarConfigured, services, poll, dialogue, durable>>

GetDataRecordFirst(r) ==
    /\ req[r].pc = "get_data"
    /\ LET user_data == data[req[r].user]
       IN  Set(r, [req[r] EXCEPT !.pc = "db1",
                                 !.selected_slot = user_data.selected_slot,
                                 !.procedure = user_data.procedure,
                                 !.contact_info = user_data.contact_info])
    /\ UNCHANGED <<now, calendarConfigured, services, poll, dialogue, durable>>

\* user_data = await state.get_data() and the three subscripts (KeyError on a
\* missing key); without calendar credentials the calendar step is skipped
GetData(r) ==
    /\ req[r].pc = "get_data"
    /\ LET user_data == data[req[r].user]
       IN  IF user_data.selected_slot = NoSlot \/ user_data.procedure = "None"
                \/ user_data.contact_info = "None"
             THEN Set(r, [req[r] EXCEPT !.pc = "except"])
             ELSE Set(r, [req[r] EXCEPT
                            !.pc = IF calendarConfigured THEN "cal_check" ELSE "db1",
                            !.calResult = IF calendarConfigured THEN "none"
                                          ELSE "unconfigured",
                            !.selected_slot = user_data.selected_slot,
                            !.procedure = user_data.procedure,
                            !.contact_info = user_data.contact_info])
    /\ UNCHANGED <<now, calendarConfigured, services, poll, dialogue, durable>>

\* a create_booking that hands the event back although reading it failed
CreateBookingReturnAfterError(result) ==
    IF result \in {"event", "subscript_error"} THEN "event" ELSE "None"

\* what GoogleCalendarService.create_booking returns to the handler: the event
\* only when it was inserted and read back; the ValueError raised for an
\* occupied slot and every other exception are caught by the method's own
\* except clause, which returns None
CreateBookingReturn(result) ==
    IF result = "event" THEN "event" ELSE "None"

\* the handler's branches on event_data; the rest of the handler runs with the
\* status computed here
OnEventData(r, event_data, result, event_id) ==
    IF event_data = "SLOT_OCCUPIED"
      THEN /\ ClearState(req[r].user)
           /\ Set(r, [InitReq EXCEPT !.pc = "done", !.user = req[r].user,
                                    !.flow = req[r].flow, !.calResult = result,
                                    !.outcome = "slot_occupied"])
      ELSE /\ Set(r, [req[r] EXCEPT
                        !.pc = "db1", !.calResult = result,
                        !.calendar_event_id =
                            IF event_data = "event" THEN event_id ELSE NoEvent,
                        !.booking_status =
                            IF event_data = "event" THEN "confirmed" ELSE "pending"])
           /\ UNCHANGED <<stage, data>>

\* create_booking, race check: _get_busy_slots returns the calendar's events,
\* or [] after an HttpError; another exception ends create_booking
CalCheck(r) ==
    /\ req[r].pc = "cal_check"
    /\ \E listing \in {"ok", "http_error", "error"} :
         LET busy_slots == IF listing = "ok" THEN BusyIntervals ELSE {}
             is_occupied == IsOccupied(req[r].selected_slot, busy_slots)
         IN  IF listing = "error"
               THEN OnEventData(r, CreateBookingReturn("error"), "error", NoEvent)
             ELSE IF is_occupied
               THEN OnEventData(r, CreateBookingReturn("occupied"), "occupied", NoEvent)
             ELSE /\ Set(r, [req[r] EXCEPT !.pc = "cal_insert"])
                  /\ UNCHANGED <<stage, data>>
    /\ UNCHANGED <<now, calendarConfigured, services, poll, flowNo, fetch, durable>>

\* create_booking, events().insert(...).execute() followed by
\* created_event['id'] on the request object: the API call may fail; once the
\* event is stored the subscript either succeeds (a mapping-like object) or
\* raises TypeError (googleapiclient's HttpRequest), which the method's except
\* clause turns into None
CalInsert(r) ==
    /\ req[r].pc = "cal_insert"
    /\ \E result \in {"api_error", "event", "subscript_error"} :
         IF result = "api_error"
           THEN /\ OnEventData(r, CreateBookingReturn("error"), "error", NoEvent)
                /\ UNCHANGED <<calendar, eventSeq>>
           ELSE /\ eventSeq' = eventSeq + 1
                /\ calendar' = calendar \cup
                       {[id |-> eventSeq + 1, start |-> req[r].selected_slot, by |-> r,
                         cancel_ok |-> FALSE]}
                /\ OnEventData(r, CreateBookingReturn(result),
                               IF result = "event" THEN "event" ELSE "error",
                               eventSeq + 1)
    /\ UNCHANGED <<now, calendarConfigured, services, poll, flowNo, fetch, bookings, reminders>>

\* Database.create_booking: one INSERT; status defaults to 'pending' and
\* calendar_event_id to NULL when the caller passes none
BookingRow(r, status, calendar_event_id) ==
    [user_id |-> req[r].user, procedure |-> req[r].procedure,
     contact_info |-> req[r].contact_info, status |-> status,
     calendar_event_id |-> calendar_event_id,
     calendar_slot |-> req[r].selected_slot, by |-> r]

\* first database.create_booking call, with the computed status and event id
CreateBookingRecord(r) ==
    /\ req[r].pc = "db1"
    /\ \/ /\ bookings' = Append(bookings,
                 BookingRow(r, req[r].booking_status, req[r].calendar_event_id))
          /\ Set(r, [req[r] EXCEPT !.pc = "db2", !.booking_id = Len(bookings) + 1])
       \/ /\ Set(r, [req[r] EXCEPT !.pc = "except"])
          /\ UNCHANGED bookings
    /\ UNCHANGED <<now, calendarConfigured, services, poll, dialogue, calendar, eventSeq, reminders>>

\* second database.create_booking call, without status and event id; its
\* lastrowid replaces booking_id
CreateBookingRecordAgain(r) ==
    /\ req[r].pc = "db2"
    /\ \/ /\ bookings' = Append(bookings, BookingRow(r, "pending", NoEvent))
          /\ Set(r, [req[r] EXCEPT !.pc = "notify", !.booking_id = Len(bookings) + 1])
       \/ /\ Set(r, [req[r] EXCEPT !.pc = "except"])
          /\ UNCHANGED bookings
    /\ UNCHANGED <<now, calendarConfigured, services, poll, dialogue, calendar, eventSeq, reminders>>

\* success text to the user (edit_text, answer), then the operator notice
\* (send_message, when ADMIN_USER_ID is set); an exception of either leads to
\* the outer except clause (outcome keeps which one until the handler is
\* done); reminders follow only for booking_status == "confirmed"
NotifyUserAndAdmin(r) ==
    /\ req[r].pc = "notify"
    /\ \E send \in {"user_failed", "sent", "admin_failed", "no_admin"} :
         LET next == IF req[r].booking_status = "confirmed" THEN "rem_day" ELSE "clear"
             text == IF req[r].booking_status = "confirmed" THEN "event_id" ELSE "manual"
         IN  IF send = "user_failed"
               THEN Set(r, [req[r] EXCEPT !.pc = "except"])
             ELSE IF send = "admin_failed"
               THEN Set(r, [req[r] EXCEPT !.pc = "except", !.outcome = "admin_failed"])
             ELSE IF send = "sent"
               THEN Set(r, [req[r] EXCEPT !.pc = next, !.notice = text])
             ELSE Set(r, [req[r] EXCEPT !.pc = next])
    /\ UNCHANGED <<now, calendarConfigured, services, poll, dialogue, durable>>

\* Database.create_reminder
ReminderRow(r, reminder_type, scheduled_time) ==
    [user_id |-> req[r].user, booking_id |-> req[r].booking_id,
     reminder_type |-> reminder_type, scheduled_time |-> scheduled_time,
     status |-> "pending", attempts |-> 0, tries |-> 0, delivered |-> 0,
     by |-> r]

\* a day-before test that lets a fire time equal to now through
DayBeforeDueOrNow(appointment_time) == appointment_time - DayBeforeLead >= now

\* the two tests of create_booking_reminders against datetime.now()
DayBeforeDue(appointment_time) == appointment_time - DayBeforeLead > now
HourBeforeDue(appointment_time) == appointment_time - HourBeforeLead > now

\* create_booking_reminders, day-before part; an exception of create_reminder
\* leaves the method through its except clause
CreateDayBeforeReminder(r) ==
    /\ req[r].pc = "rem_day"
    /\ IF DayBeforeDue(req[r].selected_slot)
         THEN \/ /\ reminders' = Append(reminders,
                       ReminderRow(r, "day_before", req[r].selected_slot - DayBeforeLead))
                 /\ Set(r, [req[r] EXCEPT !.pc = "rem_hour"])
              \/ /\ Set(r, [req[r] EXCEPT !.pc = "clear", !.remFailed = TRUE])
                 /\ UNCHANGED reminders
         ELSE /\ Set(r, [req[r] EXCEPT !.pc = "rem_hour"])
              /\ UNCHANGED reminders
    /\ UNCHANGED <<now, calendarConfigured, services, poll, dialogue, calendar, eventSeq, bookings>>

\* create_booking_reminders, two-hours-before part
CreateHourBeforeReminder(r) ==
    /\ req[r].pc = "rem_hour"
    /\ IF HourBeforeDue(req[r].selected_slot)
         THEN \/ /\ reminders' = Append(reminders,
                       ReminderRow(r, "hour_before", req[r].selected_slot - HourBeforeLead))
                 /\ Set(r, [req[r] EXCEPT !.pc = "clear"])
              \/ /\ Set(r, [req[r] EXCEPT !.pc = "clear", !.remFailed = TRUE])
                 /\ UNCHANGED reminders
         ELSE /\ Set(r, [req[r] EXCEPT !.pc = "clear"])
              /\ UNCHANGED reminders
    /\ UNCHANGED <<now, calendarConfigured, services, poll, dialogue, calendar, eventSeq, bookings>>

\* await state.clear() at the end of the try block
FinishCommit(r) ==
    /\ req[r].pc = "clear"
    /\ ClearState(req[r].user)
    /\ Done(r, req[r].user, "success")
    /\ UNCHANGED <<now, calendarConfigured, services, poll, flowNo, fetch, durable>>

\* an except clause that undoes the commit's Booking rows
HandleCommitErrorUndoingRows(r) ==
    /\ req[r].pc = "except"
    /\ bookings' = [i \in DOMAIN bookings |->
                      IF bookings[i].by = r
                        THEN [bookings[i] EXCEPT !.status = "cancelled"]
                        ELSE bookings[i]]
    /\ ClearState(req[r].user)
    /\ Done(r, req[r].user, "error")
    /\ UNCHANGED <<now, calendarConfigured, services, poll, flowNo, fetch, calendar, eventSeq,
                   reminders>>

\* the outer except clause: operator alert (its failure is swallowed), error
\* text to the user, then state.clear(); when the error text cannot be sent
\* the handler leaves before state.clear()
HandleCommitError(r) ==
    /\ req[r].pc = "except"
    /\ \E sent \in BOOLEAN :
         IF sent
           THEN /\ ClearState(req[r].user)
                /\ Done(r, req[r].user, "error")
           ELSE /\ Done(r, req[r].user, "raised")
                /\ UNCHANGED <<stage, data>>
    /\ UNCHANGED <<now, calendarConfigured, services, poll, flowNo, fetch, durable>>

\* the steps of one invocation of the final confirmation handler
CommitStep(r) ==
    \/ GetData(r)
    \/ CalCheck(r)
    \/ CalInsert(r)
    \/ CreateBookingRecord(r)
    \/ CreateBookingRecordAgain(r)
    \/ NotifyUserAndAdmin(r)
    \/ CreateDayBeforeReminder(r)
    \/ CreateHourBeforeReminder(r)
    \/ FinishCommit(r)
    \/ HandleCommitError(r)

\* the booking commit: confirmations and cancellations of users who reached
\* the final confirmation, while the clock advances
Next ==
    \/ Tick
    \/ \E u \in Users : CancelBooking(u)
    \/ \E r \in Req, u \in Users : Dispatch(r, u)
    \/ \E r \in Req : GetData(r)
    \/ \E r \in Req : CalCheck(r)
    \/ \E r \in Req : CalInsert(r)
    \/ \E r \in Req : CreateBookingRecord(r)
    \/ \E r \in Req : CreateBookingRecordAgain(r)
    \/ \E r \in Req : NotifyUserAndAdmin(r)
    \/ \E r \in Req : CreateDayBeforeReminder(r)
    \/ \E r \in Req : CreateHourBeforeReminder(r)
    \/ \E r \in Req : FinishCommit(r)
    \/ \E r \in Req : HandleCommitError(r)

Spec == Init /\ [][Next]_vars

\* the whole dialogue of one user from the state after construction, with the
\* commits of the dialogues that reach the final confirmation run one at a time
DialogueReq == {1}
DialogueUsers == {"u1"}

NextDialogue ==
    \/ Tick
    \/ \E u \in DialogueUsers, p \in Procedures : BookingStart(u, p)
    \/ \E u \in DialogueUsers, t \in Tasks : BookingConfirm(u, t)
    \/ \E u \in DialogueUsers, t \in Tasks : SlotsFetched(u, t)
    \/ \E u \in DialogueUsers, t \in Tasks : ShowTimeSlots(u, t)
    \/ \E u \in DialogueUsers, page \in PageInputs : TimePagination(u, page)
    \/ \E u \in DialogueUsers, i \in SlotIndexInputs : TimeSlotSelected(u, i)
    \/ \E u \in DialogueUsers, c \in Contacts : ContactInfo(u, c)
    \/ \E u \in DialogueUsers : ChangeTime(u)
    \/ \E u \in DialogueUsers : CancelBooking(u)
    \/ \E r \in DialogueReq, u \in DialogueUsers : Dispatch(r, u)
    \/ \E r \in DialogueReq : CommitStep(r)

SpecDialogue == InitDialogue /\ [][NextDialogue]_vars

\* ------------------------------------------------------- reminder poller
MaxAttempts == 3   \* r.attempts < 3
MaxTries == 4      \* deliveries of one reminder that fail within the model
MaxDeliveries == 2 \* deliveries of one reminder that are counted

\* the rows get_pending_reminders selects: pending, due, attempts < 3, and
\* JOIN users u ON r.user_id = u.telegram_id
DueReminders ==
    {k \in DOMAIN reminders :
        /\ reminders[k].status = "pending"
        /\ reminders[k].scheduled_time <= now
        /\ reminders[k].attempts < MaxAttempts
        /\ reminders[k].user_id \in users}

\* ORDER BY r.scheduled_time ASC: every order of the ids that is ascending in
\* the scheduled time
FetchOrders(ids) ==
    {q \in [1..Cardinality(ids) -> ids] :
        /\ \A i, j \in DOMAIN q : i # j => q[i] # q[j]
        /\ \A i, j \in DOMAIN q :
             i < j => reminders[q[i]].scheduled_time <= reminders[q[j]].scheduled_time}

\* mark_reminder_sent: UPDATE ... WHERE id = ?
MarkSent(rows, k) == [rows EXCEPT ![k].status = "sent"]

\* a mark_reminder_failed whose CASE looks one attempt too late
MarkFailedLate(rows, k) ==
    [rows EXCEPT ![k].attempts = @ + 1,
                 ![k].status = IF rows[k].attempts >= MaxAttempts
                                 THEN "failed" ELSE "pending"]

\* mark_reminder_failed: attempts + 1 and the CASE on the old attempts
MarkFailed(rows, k) ==
    [rows EXCEPT ![k].attempts = @ + 1,
                 ![k].status = IF rows[k].attempts >= MaxAttempts - 1
                                 THEN "failed" ELSE "pending"]

\* start_handler: state.clear(), then get_or_create_user, which inserts the
\* row of the sender unless it raises.  It is the only place that writes the
\* users table; /menu and the menu buttons work without it
start_handler(u) ==
    /\ stage' = [stage EXCEPT ![u] = "none"]
    /\ data' = [data EXCEPT ![u] = EmptyData]
    /\ users' \in {users, users \cup {u}}
    /\ UNCHANGED <<now, calendarConfigured, classifier, sessions, availability,
                   codec, parsing, generation, flowNo, fetch, durable, req, poll>>

\* _check_and_send_reminders, the query; when it raises the pass is over
PollFetch ==
    /\ poll.pc = "sleep"
    /\ \E q \in FetchOrders(DueReminders) :
         poll' = [pc |-> "send", queue |-> q]
    /\ UNCHANGED <<now, calendarConfigured, services, dialogue, durable, req>>

\* one turn of the loop over the fetched rows: _send_reminder, then
\* mark_reminder_sent, and mark_reminder_failed when either raises; an
\* exception of mark_reminder_failed ends the pass.  delivered counts the
\* messages bot.send_message put through, tries the ones it raised on
PollSend ==
    /\ poll.pc = "send"
    /\ poll.queue # <<>>
    /\ LET k == Head(poll.queue)
           rest == [poll EXCEPT !.queue = Tail(poll.queue)]
           tried == [reminders EXCEPT ![k].tries = @ + 1]
           got == [reminders EXCEPT ![k].delivered =
                                      IF @ < MaxDeliveries THEN @ + 1 ELSE @]
       IN  \/ /\ reminders' = MarkSent(got, k)
              /\ poll' = rest
           \/ /\ reminders' = MarkFailed(got, k)
              /\ poll' = rest
           \/ /\ reminders[k].tries < MaxTries
              /\ reminders' = MarkFailed(tried, k)
              /\ poll' = rest
           \/ /\ reminders[k].tries < MaxTries
              /\ reminders' = tried
              /\ poll' = InitPoll
           \/ /\ reminders' = got
              /\ poll' = InitPoll
    /\ UNCHANGED <<now, calendarConfigured, services, dialogue, calendar, eventSeq, bookings, req>>

\* the loop is through: asyncio.sleep(30) until the next pass
PollSleep ==
    /\ poll.pc = "send"
    /\ poll.queue = <<>>
    /\ poll' = InitPoll
    /\ UNCHANGED <<now, calendarConfigured, services, dialogue, durable, req>>

\* cancel_booking_reminders: UPDATE ... SET status = 'cancelled' WHERE
\* booking_id = ? AND status = 'pending'
CancelBookingReminders(booking_id) ==
    /\ reminders' = [k \in DOMAIN reminders |->
                       IF reminders[k].booking_id = booking_id
                            /\ reminders[k].status = "pending"
                         THEN [reminders[k] EXCEPT !.status = "cancelled"]
                         ELSE reminders[k]]
    /\ UNCHANGED <<now, calendarConfigured, services, poll, dialogue, calendar, eventSeq,
                   bookings, req>>

\* GoogleCalendarService.cancel_booking(event_id): events().delete(...) is
\* built in a worker thread and never executed, so the event stays in the
\* calendar; the service object has no attribute reminder_service (nothing
\* assigns one), so cancel_booking_reminders is not called; the method
\* returns True, which cancel_ok records on the event
CancelCalendarBooking(event_id) ==
    /\ \E e \in calendar : e.id = event_id
    /\ calendar' = {IF e.id = event_id THEN [e EXCEPT !.cancel_ok = TRUE] ELSE e :
                      e \in calendar}
    /\ UNCHANGED <<now, calendarConfigured, services, poll, dialogue, eventSeq, bookings,
                   reminders, req>>

\* the tables two finished commits leave behind at hour 0: u1 booked the
\* Monday slot and u2 the Tuesday slot, both with a calendar event.  u1 began
\* with /start; u2 came in through /menu, or had get_or_create_user raise, and
\* has no users row
DoneReq(u) == [InitReq EXCEPT !.pc = "done", !.user = u, !.flow = 1,
                              !.outcome = "success"]

CommittedRow(r, u, slot, status, calendar_event_id) ==
    [user_id |-> u, procedure |-> "cleaning",
     contact_info |-> "Anna\n+375291234567", status |-> status,
     calendar_event_id |-> calendar_event_id, calendar_slot |-> slot, by |-> r]

CommittedReminder(r, u, booking_id, reminder_type, scheduled_time) ==
    [user_id |-> u, booking_id |-> booking_id, reminder_type |-> reminder_type,
     scheduled_time |-> scheduled_time, status |-> "pending", attempts |-> 0,
     tries |-> 0, delivered |-> 0, by |-> r]

CommittedBookings ==
    <<CommittedRow(1, "u1", 3, "confirmed", 1), CommittedRow(1, "u1", 3, "pending", NoEvent),
      CommittedRow(2, "u2", 25, "confirmed", 2), CommittedRow(2, "u2", 25, "pending", NoEvent)>>

CommittedReminders ==
    <<CommittedReminder(1, "u1", 2, "hour_before", 3 - HourBeforeLead),
      CommittedReminder(2, "u2", 4, "day_before", 25 - DayBeforeLead),
      CommittedReminder(2, "u2", 4, "hour_before", 25 - HourBeforeLead)>>

InitReminders ==
    /\ now = 0
    /\ calendarConfigured = TRUE
    /\ stage = [u \in Users |-> "none"]
    /\ data = [u \in Users |-> EmptyData]
    /\ flowNo = [u \in Users |-> 1]
    /\ calendar = {[id |-> 1, start |-> 3, by |-> 1, cancel_ok |-> FALSE],
                   [id |-> 2, start |-> 25, by |-> 2, cancel_ok |-> FALSE]}
    /\ eventSeq = 2
    /\ bookings = CommittedBookings
    /\ reminders = CommittedReminders
    /\ fetch = [u \in Users |-> NoFetch]
    /\ req = [r \in Req |-> DoneReq(IF r = 1 THEN "u1" ELSE "u2")]
    /\ poll = InitPoll
    /\ users = {"u1"}
    /\ ServicesIdle

NextReminders ==
    \/ Tick
    \/ PollFetch
    \/ PollSend
    \/ PollSleep
    \/ \E u \in Users : start_handler(u)
    \/ \E booking_id \in DOMAIN bookings : CancelBookingReminders(booking_id)
    \/ \E event_id \in 1..eventSeq : CancelCalendarBooking(event_id)

SpecReminders == InitReminders /\ [][NextReminders]_vars

\* a turn of the loop whose database call went through: the row is sent, or
\* its failure is counted
PollSendRecorded ==
    /\ PollSend
    /\ \E k \in DOMAIN reminders :
         \/ reminders'[k].status # reminders[k].status
         \/ reminders'[k].attempts # reminders[k].attempts

\* _reminder_loop: while self.is_running, a pass, then asyncio.sleep, an
\* exception of the pass included, so the poller always takes its next step;
\* and the database does not refuse the poller's updates for ever
SpecRemindersFair ==
    /\ InitReminders
    /\ [][NextReminders]_vars
    /\ WF_vars(PollFetch)
    /\ WF_vars(PollSend)
    /\ WF_vars(PollSleep)
    /\ SF_vars(PollSendRecorded)

\* ------------------------------------------------------- intent classifier
\* Cyrillic text is written one Latin character per letter:
\*   a b v g d e w x z i j k l m n o p r s t u f h c 4 6 5 7 y 8 3 9 q
\* for the letters a..ya of the alphabet in order (w is the letter yo, x is
\* zhe, j is short i, 4 che, 6 sha, 5 shcha, 7 the hard sign, y yery, 8 the
\* soft sign, 3 e, 9 yu, q ya); an upper-case Latin letter is the upper-case
\* form of the same letter.
MaxFragments == 3      \* fragments joined into one message

Char(t, i) == SubSeq(t, i, i)
From(t, i) == SubSeq(t, i, Len(t))

\* Python's  k in text
Contains(text, k) ==
    \E i \in 1..(Len(text) - Len(k) + 1) : SubSeq(text, i, i + Len(k) - 1) = k

UpperCase == "ABCDEFGHIJKLMNOPQRSTUVWXYZ"
LowerCase == "abcdefghijklmnopqrstuvwxyz"
Digits == "0123456789"

LowerChar(c) ==
    IF \E i \in 1..Len(UpperCase) : Char(UpperCase, i) = c
    THEN Char(LowerCase, CHOOSE i \in 1..Len(UpperCase) : Char(UpperCase, i) = c)
    ELSE c

\* str.lower()
RECURSIVE Lower(_)
Lower(t) == IF t = "" THEN "" ELSE LowerChar(Char(t, 1)) \o Lower(From(t, 2))

IsSpace(c) == c \in {" ", "\t", "\n"}

\* str.strip()
RECURSIVE Strip(_)
Strip(t) ==
    IF t = "" THEN ""
    ELSE IF IsSpace(Char(t, 1)) THEN Strip(From(t, 2))
    ELSE IF IsSpace(Char(t, Len(t))) THEN Strip(SubSeq(t, 1, Len(t) - 1))
    ELSE t

\* re.sub(r'\s+', ' ', text)
RECURSIVE CollapseSpaces(_)
CollapseSpaces(t) ==
    IF t = "" THEN ""
    ELSE IF IsSpace(Char(t, 1))
         THEN IF Len(t) > 1 /\ IsSpace(Char(t, 2))
              THEN CollapseSpaces(From(t, 2))
              ELSE " " \o CollapseSpaces(From(t, 2))
         ELSE Char(t, 1) \o CollapseSpaces(From(t, 2))

\* text.replace(yo, ye)
RECURSIVE ReplaceYo(_)
ReplaceYo(t) ==
    IF t = "" THEN ""
    ELSE (IF Char(t, 1) = "w" THEN "e" ELSE Char(t, 1)) \o ReplaceYo(From(t, 2))

normalize_message(m) == ReplaceYo(CollapseSpaces(Strip(Lower(m))))

INTENT_KEYWORDS(i) ==
    CASE i = "pricing" ->
           <<"cena", "stoimost8", "prajs", "tarif", "rascenka", "oplata",
             "skol8ko stoit", "prajslist", "skol8ko obojdetsq", "skol8ko stoit",
             "cena", "stoimost8", "prajs", "prajslist", "skol8ko budet stoit8",
             "vo skol8ko obojdetsq", "dorogo li", "ceny na", "stoimost8 procedur",
             "skol8ko za", "cenu na">>
      [] i = "booking" ->
           <<"zapis8", "zapisat8sq", "nazna4it8", "raspisanie", "priem", "okno",
             "vremq", "ho4u prijti", "ho4u na priwm", "ho4u zapisat8sq",
             "ho4u na priem", "moxno zapisat8sq", "kogda moxno prijti",
             "est8 vremq", "svobodnoe vremq", "raspisanie", "grafik raboty",
             "ho4u popast8", "nuxno popast8", "zapisat8 menq">>
      [] i = "emergency" ->
           <<"krov8", "bolit", "temperatura", "allergiq", "bolet8", "bol8",
             "pokrasnenie", "syp8", "6i6ka", "to6nit8", "krov8", "krovote4enie",
             "otek", "otwk", "opuhlo", "vospalenie", "vospalilos8", "xxenie",
             "ploho sebq 4uvstvu9", "uplotnenie", "gnoj", "nagnoenie">>
      [] OTHER -> <<>>

\* a pattern \bW1\s+W2...\s+Wn with an optional closing \b; every Wi is a set
\* of alternatives
INTENT_PATTERNS(i) ==
    CASE i = "aftercare" ->
           <<[words |-> <<{"posle"}, {"procedur", "4istk", "piling", "mezo", "in7ekc",
                                      "botoks", "filler"}>>, end_b |-> FALSE],
             [words |-> <<{"uhod"}, {"posle"}>>, end_b |-> TRUE],
             [words |-> <<{"4to"}, {"moxno", "nel8zq", "delat8"}, {"posle"}>>,
              end_b |-> TRUE],
             [words |-> <<{"posle"}, {"seansa", "vizita"}, {"4to"}>>, end_b |-> TRUE],
             [words |-> <<{"reabilitaciq"}, {"posle"}>>, end_b |-> TRUE],
             [words |-> <<{"ograni4eniq"}, {"posle"}>>, end_b |-> TRUE],
             [words |-> <<{"vosstanovlenie"}, {"posle"}>>, end_b |-> TRUE],
             [words |-> <<{"posle"}, {"lazer"}>>, end_b |-> FALSE],
             [words |-> <<{"posle"}, {"6lifovk"}>>, end_b |-> FALSE]>>
      [] i = "consultation" ->
           <<[words |-> <<{"kakaq"}, {"procedura"}, {"lu46e", "podojdet", "nuxna"}>>,
              end_b |-> TRUE],
             [words |-> <<{"4to"}, {"delat8"}, {"s"}, {"koxej", "licom", "mor5inami"}>>,
              end_b |-> TRUE],
             [words |-> <<{"kak"}, {"izbavit8sq"}, {"ot"}>>, end_b |-> TRUE],
             [words |-> <<{"4to"}, {"posovetuete"}>>, end_b |-> TRUE],
             [words |-> <<{"kakoj"}, {"uhod"}>>, end_b |-> TRUE]>>
      [] OTHER -> <<>>

INTENT_EXCLUSIONS(i) ==
    CASE i = "pricing" -> <<"ne vaxna cena", "cena ne vaxna">>
      [] i = "emergency" -> <<"ne bolit", "bol86e ne bolit">>
      [] OTHER -> <<>>

\* the regular expression's \w and \b
IsWordChar(c) == Contains(LowerCase \o UpperCase \o Digits \o "_", c)

WordAt(text, i) == i >= 1 /\ i <= Len(text) /\ IsWordChar(Char(text, i))

Boundary(text, i) == WordAt(text, i - 1) # WordAt(text, i)

\* the positions right after a match of words[n], \s+, words[n+1], ... that
\* starts at position i
RECURSIVE MatchEnds(_, _, _, _)
MatchEnds(text, i, words, n) ==
    LET ends == {i + Len(w) : w \in {v \in words[n] :
                     /\ i + Len(v) - 1 <= Len(text)
                     /\ SubSeq(text, i, i + Len(v) - 1) = v}}
        gaps(j) == {k \in 1..(Len(text) - j + 1) :
                       \A x \in j..(j + k - 1) : IsSpace(Char(text, x))}
    IN  IF n = Len(words) THEN ends
        ELSE UNION {UNION {MatchEnds(text, j + k, words, n + 1) : k \in gaps(j)} :
                      j \in ends}

\* pattern.search(text)
Search(pattern, text) ==
    \E i \in 1..Len(text) :
        /\ Boundary(text, i)
        /\ \E j \in MatchEnds(text, i, pattern.words, 1) :
              pattern.end_b => Boundary(text, j)

check_keywords_only(text, i) ==
    \E k \in DOMAIN INTENT_KEYWORDS(i) : Contains(text, INTENT_KEYWORDS(i)[k])

check_intent_keywords(text, i) ==
    IF \E e \in DOMAIN INTENT_EXCLUSIONS(i) : Contains(text, INTENT_EXCLUSIONS(i)[e])
    THEN FALSE
    ELSE \E k \in DOMAIN INTENT_KEYWORDS(i) : Contains(text, INTENT_KEYWORDS(i)[k])

MatchesPatterns(text, i) ==
    \E p \in DOMAIN INTENT_PATTERNS(i) : Search(INTENT_PATTERNS(i)[p], text)

classify_booking_first(m) ==
    LET text == normalize_message(m)
    IN  IF text = "" THEN "general"
        ELSE IF check_intent_keywords(text, "booking") THEN "booking"
        ELSE IF check_intent_keywords(text, "emergency") THEN "emergency"
        ELSE IF check_intent_keywords(text, "pricing") THEN "pricing"
        ELSE IF MatchesPatterns(text, "aftercare") THEN "aftercare"
        ELSE "consultation"

\* the pass over the exclusions (step 1) only logs; the patterns are tried in
\* the order of the dictionary: aftercare, consultation
classify_by_keywords_and_patterns(m) ==
    LET text == normalize_message(m)
    IN  IF text = "" THEN "general"
        ELSE IF check_intent_keywords(text, "emergency") THEN "emergency"
        ELSE IF check_intent_keywords(text, "booking") THEN "booking"
        ELSE IF check_intent_keywords(text, "pricing") THEN "pricing"
        ELSE IF MatchesPatterns(text, "aftercare") THEN "aftercare"
        ELSE IF MatchesPatterns(text, "consultation") THEN "consultation"
        ELSE "consultation"

RECURSIVE SumTo(_, _)
SumTo(f, n) == IF n = 0 THEN 0 ELSE f[n] + SumTo(f, n - 1)

Min(a, b) == IF a <= b THEN a ELSE b

score_of_keywords_only(m, i) ==
    LET text == normalize_message(m)
        keywords == INTENT_KEYWORDS(i)
        kscore == [k \in DOMAIN keywords |->
                     IF Contains(text, keywords[k]) THEN 5 ELSE 0]
    IN  IF text = "" THEN 0 ELSE Min(SumTo(kscore, Len(keywords)), 10)

\* the score in tenths: 5 for every listed keyword found, 2 more when it
\* stands between spaces, 6 for every pattern found, at most 10
get_confidence_score(m, i) ==
    LET text == normalize_message(m)
        keywords == INTENT_KEYWORDS(i)
        patterns == INTENT_PATTERNS(i)
        kscore == [k \in DOMAIN keywords |->
                     IF Contains(text, keywords[k])
                     THEN 5 + (IF Contains(" " \o text \o " ", " " \o keywords[k] \o " ")
                               THEN 2 ELSE 0)
                     ELSE 0]
        pscore == [p \in DOMAIN patterns |->
                     IF Search(patterns[p], text) THEN 6 ELSE 0]
    IN  IF text = "" THEN 0
        ELSE Min(SumTo(kscore, Len(keywords)) + SumTo(pscore, Len(patterns)), 10)

thresholds_all_zero(i) == 0

\* the thresholds of classify_intent, in tenths
thresholds(i) ==
    CASE i = "emergency" -> 3
      [] i = "booking" -> 4
      [] i = "pricing" -> 4
      [] i = "aftercare" -> 5
      [] i = "consultation" -> 0
      [] OTHER -> 5

valid_intents == {"emergency", "consultation", "booking", "pricing", "aftercare",
                  "general"}

\* what the external model may answer: a text, no choice at all, or an error
ModelReplies == {"emergency", " Booking\n", "pricing", "aftercare", "consultation",
                 "general", "I think: booking", "no_choices", "error"}

\* OpenAIService.classify_intent
openai_classify_intent(reply) ==
    IF reply \in {"no_choices", "error"} THEN "general"
    ELSE LET answer == Lower(Strip(reply))
         IN  IF answer \in valid_intents THEN answer ELSE "general"

\* the messages: up to MaxFragments fragments joined by single spaces
Fragments == {"", "privet", "bolit", "Ne  bolit", "otwk", "bol86e", "cena",
              "cena ne vaxna", "ZAPIS8", "skol8ko stoit", "posle\tprocedur",
              "4to posovetuete"}

RECURSIVE Texts(_)
Texts(n) ==
    IF n = 1 THEN Fragments
    ELSE Texts(n - 1) \cup {t \o " " \o f : t \in Texts(n - 1), f \in Fragments}

Messages == Texts(MaxFragments)

\* SimpleBotLogic.classify_intent
ClassifyIntent ==
    /\ intent = "unset"
    /\ LET keyword_intent == classify_by_keywords_and_patterns(message)
           confidence == get_confidence_score(message, keyword_intent)
       IN  IF confidence >= thresholds(keyword_intent)
           THEN intent' = keyword_intent /\ gpt_intent' = "not_called"
           ELSE \E reply \in ModelReplies :
                    /\ gpt_intent' = openai_classify_intent(reply)
                    /\ intent' = gpt_intent'
    /\ UNCHANGED <<now, calendarConfigured, users, poll, dialogue, durable, req, message, sessions,
                   availability, codec, parsing, generation>>

InitClassifier ==
    /\ now = 0
    /\ calendarConfigured = FALSE
    /\ stage = [u \in Users |-> "none"]
    /\ data = [u \in Users |-> EmptyData]
    /\ flowNo = [u \in Users |-> 0]
    /\ calendar = {}
    /\ eventSeq = 0
    /\ bookings = <<>>
    /\ reminders = <<>>
    /\ fetch = [u \in Users |-> NoFetch]
    /\ req = [r \in Req |-> InitReq]
    /\ poll = InitPoll
    /\ users = Users
    /\ message \in Messages
    /\ intent = "unset"
    /\ gpt_intent = "not_called"
    /\ SessionsIdle
    /\ AvailabilityIdle
    /\ CodecIdle
    /\ ParsingIdle
    /\ GenerationIdle

NextClassifier == ClassifyIntent

SpecClassifier == InitClassifier /\ [][NextClassifier]_vars

\* ----------------------------------------------------------- user sessions
\* A session is a dictionary whose "data" entry is again a dictionary; it is
\* kept as the sequence of its levels, outermost first: level n + 1 is the
\* value of "data" in level n and the empty sequence is the empty dictionary.
\* An entry that is not in the dictionary is "None" (NoTime, 0 for the length
\* of conversation_history).  SessionManager never reads a session file while
\* the process runs: every get_user_session fills the cache, and
\* start_cleanup_task and clear_user_session have no caller.
MaxCalls == 3          \* handler invocations that use the session
MaxClock == 300        \* the clock runs from second 0 to second MaxClock

CacheTtl == 300        \* total_seconds() < 300
SessionTtl == 86400    \* timedelta(hours=24)
MaxHistory == 10       \* conversation_history[-10:]

NoTime == 0 - 1
Instants == {0, 1, CacheTtl - 1, CacheTtl, CacheTtl + 1}
Queries == {"cena", ""}
Problems == {"bolit"}

NewSession(t) ==
    [last_intent |-> "None", last_query |-> "None", intent_timestamp |-> NoTime,
     conversation_history |-> 0, user_profile |-> "None",
     updated_at |-> t, expires_at |-> NoTime]

\* get_user_session: the cached dictionary itself, or a new one put in the cache
get_user_session(cache, user_id) ==
    IF cache[user_id] # <<>> THEN cache[user_id] ELSE <<NewSession(clock)>>

\* update_user_session: the cache entry becomes {"data": data, "updated_at",
\* "expires_at"}
update_user_session(cache, user_id, session_data) ==
    [cache EXCEPT ![user_id] =
        <<[NewSession(clock) EXCEPT !.expires_at = clock + SessionTtl]>>
            \o session_data]

\* the request problem_description_handler builds around the user's text
EnhancedQuery(text) == "rekomendaci9. opisanie: " \o text

\* what the rules say about the messages of this part, computed once
Asked == Queries \cup {EnhancedQuery(text) : text \in Problems}

Rules ==
    [m \in Asked |->
        LET keyword_intent == classify_by_keywords_and_patterns(m)
        IN  [intent |-> keyword_intent,
             confidence |-> get_confidence_score(m, keyword_intent)]]

\* SimpleBotLogic.classify_intent as a function of the external model's reply
classify_intent(m, reply) ==
    IF Rules[m].confidence >= thresholds(Rules[m].intent)
    THEN [intent |-> Rules[m].intent, gpt |-> "not_called"]
    ELSE [intent |-> openai_classify_intent(reply),
          gpt |-> openai_classify_intent(reply)]

except_reraises(found) ==
    [text |-> "unset", intent |-> found, raised |-> TRUE]

\* the except clause of process_message: the error text with the clinic
\* phone and intent 'error' are returned, nothing is raised again
except_clause(found) ==
    [text |-> "error_response", intent |-> "error", raised |-> FALSE]

\* process_message on a given cache.  outcome "ok": every step succeeds;
\* "fails_at_session": get_user_session raises; "fails_at_classification":
\* classify_intent raises, when it is called; "fails_before_update": reading
\* the history, the search or the generation raises, after the cached
\* dictionary was changed in place; "fails_after_update": save_conversation
\* raises.  The except clause answers every failure with _get_error_response
\* and intent 'error'.
process_message(cache, user_id, m, reply, outcome) ==
    LET user_session == get_user_session(cache, user_id)
        top == user_session[1]
        hit == /\ top.last_intent # "None"
               /\ top.last_query = m
               /\ clock - top.intent_timestamp < CacheTtl
        fresh == classify_intent(m, reply)
        found == IF hit THEN top.last_intent ELSE fresh.intent
        noted == IF hit THEN top
                 ELSE [top EXCEPT !.last_intent = found, !.last_query = m,
                                  !.intent_timestamp = clock]
        told == [noted EXCEPT
                   !.conversation_history = Min(noted.conversation_history + 1, MaxHistory)]
        met == IF outcome = "fails_at_classification" /\ hit THEN "ok" ELSE outcome
        classified == ~hit /\ met \notin {"fails_at_session", "fails_at_classification"}
    IN  [cache |-> CASE met = "fails_at_session" -> cache
                     [] met = "fails_at_classification" ->
                            [cache EXCEPT ![user_id] = user_session]
                     [] met = "fails_before_update" ->
                            [cache EXCEPT ![user_id] = <<noted>> \o Tail(user_session)]
                     [] OTHER ->
                            update_user_session(cache, user_id,
                                                <<told>> \o Tail(user_session)),
         intent |-> IF met = "ok" THEN found ELSE except_clause(found).intent,
         gpt |-> IF classified THEN fresh.gpt ELSE "not_called",
         ran |-> classified,
         returned |-> [outcome |-> met,
                       text |-> IF met = "ok" THEN "response"
                                ELSE except_clause(found).text,
                       raised |-> met # "ok" /\ except_clause(found).raised]]

Outcomes == {"ok", "fails_at_session", "fails_at_classification", "fails_before_update",
             "fails_after_update"}

\* the replies that matter for a message: one when the rules are sure, else
\* an answer the external model gives and a failing call
RepliesFor(m) ==
    IF classify_intent(m, "error").gpt = "not_called" THEN {"error"}
    ELSE {" Booking\n", "error"}

Finish(user_id, m, done) ==
    /\ sessions_cache' = done.cache
    /\ message' = m
    /\ intent' = done.intent
    /\ gpt_intent' = done.gpt
    /\ pm_return' = done.returned
    /\ calls' = calls + 1
    /\ classify_calls' = classify_calls + (IF done.ran THEN 1 ELSE 0)
    /\ prev_classified' = IF done.ran
                          THEN [prev_classified EXCEPT
                                  ![user_id] = [query |-> m, at |-> clock]]
                          ELSE prev_classified
    /\ UNCHANGED <<now, calendarConfigured, users, poll, dialogue, durable, req, clock,
                   availability, codec, parsing, generation>>

\* general_message_handler and the info queries: one process_message call
ProcessMessage(user_id, m) ==
    /\ calls < MaxCalls
    /\ \E reply \in RepliesFor(m), outcome \in Outcomes :
         Finish(user_id, m, process_message(sessions_cache, user_id, m, reply, outcome))

\* problem_description_handler: the profile goes into the session, the session
\* is updated, then the built request is processed
ProblemDescription(user_id, text) ==
    /\ calls < MaxCalls
    /\ LET user_session == get_user_session(sessions_cache, user_id)
           profiled == <<[user_session[1] EXCEPT !.user_profile = text]>>
                          \o Tail(user_session)
           cache == update_user_session(sessions_cache, user_id, profiled)
       IN  \E reply \in RepliesFor(EnhancedQuery(text)), outcome \in Outcomes :
             Finish(user_id, EnhancedQuery(text),
                    process_message(cache, user_id, EnhancedQuery(text), reply, outcome))

\* time passes until the next instant looked at
Elapse(t) ==
    /\ t > clock
    /\ t <= MaxClock
    /\ clock' = t
    /\ UNCHANGED <<now, calendarConfigured, users, poll, dialogue, durable, req, classifier,
                   sessions_cache, calls, classify_calls, prev_classified, pm_return,
                   availability,
                   codec, parsing, generation>>

InitSessions ==
    /\ now = 0
    /\ calendarConfigured = FALSE
    /\ stage = [u \in Users |-> "none"]
    /\ data = [u \in Users |-> EmptyData]
    /\ flowNo = [u \in Users |-> 0]
    /\ calendar = {}
    /\ eventSeq = 0
    /\ bookings = <<>>
    /\ reminders = <<>>
    /\ fetch = [u \in Users |-> NoFetch]
    /\ req = [r \in Req |-> InitReq]
    /\ poll = InitPoll
    /\ users = Users
    /\ ServicesIdle

NextSessions ==
    \/ \E user_id \in Users, m \in Queries : ProcessMessage(user_id, m)
    \/ \E user_id \in Users, text \in Problems : ProblemDescription(user_id, text)
    \/ \E t \in Instants : Elapse(t)

SpecSessions == InitSessions /\ [][NextSessions]_vars

\* ---------------------------------------------------------- slot generator
\* Local time in minutes; minute 0 is a Monday 00:00 (Europe/Minsk has no
\* change of offset).
DaysAhead == 14            \* get_available_slots(days_ahead=14)
SlotMinutes == 60          \* slot_duration_minutes
SLOT_INTERVAL == 60
WORK_START == 9
WORK_END == 18
WORK_DAYS == {0, 1, 2, 3, 4, 5}
CutoffHour == 18           \* now.hour >= 18
MinLeadMinutes == 120      \* timedelta(hours=2)
MaxSlots == 50             \* available_slots[:50]
DayMinutes == 1440
MaxDelay == 1              \* minutes between the two readings of the clock

DayOf(t) == t \div DayMinutes
HourOf(t) == (t % DayMinutes) \div 60
weekday(t) == DayOf(t) % 7
At(date, hour) == date * DayMinutes + hour * 60
Max(a, b) == IF a >= b THEN a ELSE b

\* min_time.replace(minute=0, second=0, microsecond=0)
FloorHour(t) == t - (t % 60)

\* start_time of get_available_slots
SearchStart(t) ==
    IF HourOf(t) >= CutoffHour
    THEN At(DayOf(t) + 1, WORK_START)
    ELSE Max(t + MinLeadMinutes, At(DayOf(t), WORK_START))

generate_day_slots_by_start(date, busy, t) ==
    LET current_time == IF date = DayOf(t)
                        THEN Max(At(date, WORK_START), FloorHour(t + MinLeadMinutes))
                        ELSE At(date, WORK_START)
        end_time == At(DayOf(current_time), WORK_END)
    IN  {s \in {current_time + k * SLOT_INTERVAL : k \in 0..23} :
            /\ s + SlotMinutes <= end_time
            /\ \A b \in busy : ~(b[1] <= s /\ s < b[2])}

\* the starts _generate_day_slots returns for a date; t is its own reading of
\* the clock
generate_day_slots(date, busy, t) ==
    LET current_time == IF date = DayOf(t)
                        THEN Max(At(date, WORK_START), FloorHour(t + MinLeadMinutes))
                        ELSE At(date, WORK_START)
        end_time == At(DayOf(current_time), WORK_END)
    IN  {s \in {current_time + k * SLOT_INTERVAL : k \in 0..23} :
            /\ s + SlotMinutes <= end_time
            /\ \A b \in busy : ~Overlaps(s, s + SlotMinutes, b[1], b[2])}

KeepFirstSlots(seq) == SubSeq(seq, 1, Min(Len(seq), MaxSlots))

\* the loop of _generate_available_slots over the dates before end_date
RECURSIVE SlotsFromDate(_, _, _, _)
SlotsFromDate(current_date, end_date, busy, t) ==
    IF current_date >= end_date THEN <<>>
    ELSE (IF current_date % 7 \in WORK_DAYS
          THEN SortedSeq(generate_day_slots(current_date, busy, t))
          ELSE <<>>) \o SlotsFromDate(current_date + 1, end_date, busy, t)

\* _generate_available_slots: the working days from the date of start_time up
\* to, not including, the date of end_time, at most MaxSlots slots
generate_available_slots(start_time, end_time, busy, t) ==
    KeepFirstSlots(SlotsFromDate(DayOf(start_time), DayOf(end_time), busy, t))

\* the inputs: a time of the first week on the hour, at half past or one
\* minute before the hour, and busy intervals that lie on the hour, across it,
\* or over a whole working day
WallTimes == {At(d, h) + m : d \in 0..6, h \in 0..23, m \in {0, 30, 59}}

BusyChoices ==
    SUBSET {<<At(0, 14), At(0, 15)>>, <<At(1, 10), At(1, 11)>>,
            <<At(1, 13) + 30, At(1, 14) + 30>>, <<At(2, 9), At(2, 18)>>}

NotAsked == <<NoSlot>>

\* get_available_slots; an exception anywhere gives the empty list
GetAvailableSlots ==
    /\ slots_returned = NotAsked
    /\ \E delay \in 0..MaxDelay, raised \in BOOLEAN :
         slots_returned' =
            IF raised THEN <<>>
            ELSE generate_available_slots(SearchStart(wall),
                                          SearchStart(wall) + DaysAhead * DayMinutes,
                                          busy_passed, wall + delay)
    /\ UNCHANGED <<now, calendarConfigured, users, poll, dialogue, durable, req, classifier,
                   sessions, wall, busy_passed, codec,
                   parsing, generation>>

InitSlots ==
    /\ now = 0
    /\ calendarConfigured = TRUE
    /\ stage = [u \in Users |-> "none"]
    /\ data = [u \in Users |-> EmptyData]
    /\ flowNo = [u \in Users |-> 0]
    /\ calendar = {}
    /\ eventSeq = 0
    /\ bookings = <<>>
    /\ reminders = <<>>
    /\ fetch = [u \in Users |-> NoFetch]
    /\ req = [r \in Req |-> InitReq]
    /\ poll = InitPoll
    /\ users = Users
    /\ ClassifierIdle
    /\ SessionsIdle
    /\ wall \in WallTimes
    /\ busy_passed \in BusyChoices
    /\ slots_returned = NotAsked
    /\ CodecIdle
    /\ ParsingIdle
    /\ GenerationIdle

NextSlots == GetAvailableSlots

SpecSlots == InitSlots /\ [][NextSlots]_vars

\* ------------------------------------------------------ Slot serialization
\* A datetime is its calendar fields and its UTC offset in minutes (NoOffset
\* when it is naive).  A dictionary value is a string or a datetime.
MinskOffset == 180         \* pytz.timezone('Europe/Minsk')
NoOffset == 9999
NoObject == [kind |-> "None"]

Digit(d) == SubSeq(Digits, d + 1, d + 1)
Pad2(n) == Digit((n \div 10) % 10) \o Digit(n % 10)
Pad4(n) == Pad2(n \div 100) \o Pad2(n % 100)
Pad6(n) == Pad2(n \div 10000) \o Pad4(n % 10000)

DigitValue(c) == CHOOSE d \in 0..9 : Digit(d) = c

RECURSIVE Number(_)
Number(t) ==
    IF t = "" THEN 0
    ELSE 10 * Number(SubSeq(t, 1, Len(t) - 1)) + DigitValue(Char(t, Len(t)))

\* datetime.isoformat(): YYYY-MM-DDTHH:MM:SS, the microseconds when they are
\* not zero, the offset when the datetime is aware
isoformat(dt) ==
    Pad4(dt.year) \o "-" \o Pad2(dt.month) \o "-" \o Pad2(dt.day) \o "T"
      \o Pad2(dt.hour) \o ":" \o Pad2(dt.minute) \o ":" \o Pad2(dt.second)
      \o (IF dt.microsecond = 0 THEN "" ELSE "." \o Pad6(dt.microsecond))
      \o (IF dt.offset = NoOffset THEN ""
          ELSE (IF dt.offset < 0 THEN "-" ELSE "+")
                 \o Pad2((IF dt.offset < 0 THEN 0 - dt.offset ELSE dt.offset) \div 60)
                 \o ":"
                 \o Pad2((IF dt.offset < 0 THEN 0 - dt.offset ELSE dt.offset) % 60))

\* datetime.fromisoformat() on a text isoformat() wrote
fromisoformat(t) ==
    LET fraction == Len(t) >= 20 /\ Char(t, 20) = "."
        rest == IF fraction THEN From(t, 27) ELSE From(t, 20)
    IN  [year |-> Number(SubSeq(t, 1, 4)),
         month |-> Number(SubSeq(t, 6, 7)),
         day |-> Number(SubSeq(t, 9, 10)),
         hour |-> Number(SubSeq(t, 12, 13)),
         minute |-> Number(SubSeq(t, 15, 16)),
         second |-> Number(SubSeq(t, 18, 19)),
         microsecond |-> IF fraction THEN Number(SubSeq(t, 21, 26)) ELSE 0,
         offset |-> IF rest = "" THEN NoOffset
                    ELSE (IF Char(rest, 1) = "-" THEN 0 - 1 ELSE 1)
                           * (60 * Number(SubSeq(rest, 2, 3)) + Number(SubSeq(rest, 5, 6)))]

NoDatetime == fromisoformat("0000-00-00T00:00:00")
StrValue(t) == [kind |-> "str", text |-> t, dt |-> NoDatetime]
DatetimeValue(dt) == [kind |-> "datetime", text |-> "", dt |-> dt]

\* tz.localize(dt)
localize(dt) == [dt EXCEPT !.offset = MinskOffset]

\* Slot.serialize
serialize(slot) ==
    [kind |-> "dict",
     start |-> StrValue(isoformat(slot.start)), end |-> StrValue(isoformat(slot.end)),
     display |-> slot.display]

deserialize_as_local(d) ==
    LET start == IF d.start.kind = "str" THEN fromisoformat(d.start.text) ELSE d.start.dt
        end == IF d.end.kind = "str" THEN fromisoformat(d.end.text) ELSE d.end.dt
    IN  [kind |-> "Slot", start |-> localize(start), end |-> localize(end),
         display |-> d.display]

\* Slot.deserialize
deserialize(d) ==
    LET start == IF d.start.kind = "str" THEN fromisoformat(d.start.text) ELSE d.start.dt
        end == IF d.end.kind = "str" THEN fromisoformat(d.end.text) ELSE d.end.dt
    IN  [kind |-> "Slot",
         start |-> IF start.offset = NoOffset THEN localize(start) ELSE start,
         end |-> IF end.offset = NoOffset THEN localize(end) ELSE end,
         display |-> d.display]

\* datetime_decoder of the state file: a string that looks like an ISO
\* datetime comes back as a datetime
datetime_decoder(v) ==
    IF /\ v.kind = "str"
       /\ Contains(v.text, "T")
       /\ \/ Contains(v.text, "+")
          \/ Contains(v.text, "Z")
          \/ Cardinality({i \in 1..Len(v.text) : Char(v.text, i) = ":"}) >= 2
    THEN DatetimeValue(fromisoformat(v.text))
    ELSE v

\* the Slot objects: an hour-long slot of January 2024 with the offset of
\* Minsk, of UTC, a negative one, or none
GivenSlots ==
    {[kind |-> "Slot",
      start |-> [year |-> 2024, month |-> 1, day |-> d, hour |-> h, minute |-> m,
                 second |-> 0, microsecond |-> us, offset |-> off],
      end |-> [year |-> 2024, month |-> 1,
               day |-> IF h = 23 THEN d + 1 ELSE d, hour |-> (h + 1) % 24, minute |-> m,
               second |-> 0, microsecond |-> us, offset |-> off],
      display |-> "slot"] :
        d \in {2, 15, 30}, h \in {9, 17, 23}, m \in {0, 30}, us \in {0, 250000},
        off \in {MinskOffset, 0, 0 - 300, NoOffset}}

\* s.serialize()
Serialize ==
    /\ slot_data.kind = "None"
    /\ slot_data' = serialize(slot_given)
    /\ UNCHANGED <<now, calendarConfigured, users, poll, dialogue, durable, req, classifier,
                   sessions, availability, parsing, generation, slot_given, slot_back>>

\* the dictionary is written to the state file and read back
LoadState ==
    /\ slot_data.kind = "dict"
    /\ slot_back.kind = "None"
    /\ slot_data' = [slot_data EXCEPT !.start = datetime_decoder(slot_data.start),
                                      !.end = datetime_decoder(slot_data.end)]
    /\ slot_data' # slot_data
    /\ UNCHANGED <<now, calendarConfigured, users, poll, dialogue, durable, req, classifier,
                   sessions, availability, parsing, generation, slot_given, slot_back>>

\* Slot.deserialize(s)
Deserialize ==
    /\ slot_data.kind = "dict"
    /\ slot_back.kind = "None"
    /\ slot_back' = deserialize(slot_data)
    /\ UNCHANGED <<now, calendarConfigured, users, poll, dialogue, durable, req, classifier,
                   sessions, availability, parsing, generation, slot_given, slot_data>>

InitCodec ==
    /\ now = 0
    /\ calendarConfigured = TRUE
    /\ stage = [u \in Users |-> "none"]
    /\ data = [u \in Users |-> EmptyData]
    /\ flowNo = [u \in Users |-> 0]
    /\ calendar = {}
    /\ eventSeq = 0
    /\ bookings = <<>>
    /\ reminders = <<>>
    /\ fetch = [u \in Users |-> NoFetch]
    /\ req = [r \in Req |-> InitReq]
    /\ poll = InitPoll
    /\ users = Users
    /\ ClassifierIdle
    /\ SessionsIdle
    /\ AvailabilityIdle
    /\ slot_given \in GivenSlots
    /\ slot_data = NoObject
    /\ slot_back = NoObject
    /\ ParsingIdle
    /\ GenerationIdle

NextCodec == Serialize \/ LoadState \/ Deserialize

SpecCodec == InitCodec /\ [][NextCodec]_vars

\* ------------------------------------------------------ contact parsing
MaxContactLen == 4

\* str.split(sep) for a separator of one character
RECURSIVE Split(_, _)
Split(t, sep) ==
    IF \A i \in 1..Len(t) : Char(t, i) # sep THEN <<t>>
    ELSE LET i == CHOOSE k \in 1..Len(t) :
                      /\ Char(t, k) = sep
                      /\ \A j \in 1..(k - 1) : Char(t, j) # sep
         IN  <<SubSeq(t, 1, i - 1)>> \o Split(From(t, i + 1), sep)

NamePlaceholder == "Klient"
PhonePlaceholder == "Ne ukazan"

\* message.text of a message without text is None
NoText == "None"
Truthy(contact_info) == contact_info # NoText /\ contact_info # ""

RECURSIVE ContactTexts(_)
ContactTexts(n) ==
    IF n = 0 THEN {""}
    ELSE LET shorter == ContactTexts(n - 1)
         IN  shorter \cup {t \o c : t \in shorter, c \in {"A", "7", " ", "\n"}}

\* client_name: the first line of the stripped text
parse_client_name(contact_info) ==
    IF Truthy(contact_info) THEN Split(Strip(contact_info), "\n")[1]
    ELSE NamePlaceholder

\* client_phone: the second line of the stripped text when the text as it
\* was stored has a line break
parse_client_phone(contact_info) ==
    IF Truthy(contact_info) /\ Contains(contact_info, "\n")
    THEN LET lines == Split(Strip(contact_info), "\n")
         IN  IF Len(lines) >= 2 THEN [raised |-> "no", value |-> lines[2]]
             ELSE [raised |-> "IndexError", value |-> "unset"]
    ELSE [raised |-> "no", value |-> PhonePlaceholder]

\* final_booking_confirmation_handler, from reading the state to the parsed
\* contact; an exception leaves the try block for the handler's outer except
ParseContact ==
    /\ parse_error = "unset"
    /\ LET phone == parse_client_phone(contact_text)
       IN  /\ parse_error' = phone.raised
           /\ client_name' = parse_client_name(contact_text)
           /\ client_phone' = phone.value
    /\ UNCHANGED <<now, calendarConfigured, users, poll, dialogue, durable, req, classifier,
                   sessions, availability, codec, generation,
                   contact_text>>

InitParsing ==
    /\ now = 0
    /\ calendarConfigured = TRUE
    /\ stage = [u \in Users |-> "none"]
    /\ data = [u \in Users |-> EmptyData]
    /\ flowNo = [u \in Users |-> 0]
    /\ calendar = {}
    /\ eventSeq = 0
    /\ bookings = <<>>
    /\ reminders = <<>>
    /\ fetch = [u \in Users |-> NoFetch]
    /\ req = [r \in Req |-> InitReq]
    /\ poll = InitPoll
    /\ users = Users
    /\ ClassifierIdle
    /\ SessionsIdle
    /\ AvailabilityIdle
    /\ CodecIdle
    /\ contact_text \in ContactTexts(MaxContactLen) \cup {NoText}
    /\ client_name = "unset"
    /\ client_phone = "unset"
    /\ parse_error = "unset"
    /\ GenerationIdle

NextParsing == ParseContact

SpecParsing == InitParsing /\ [][NextParsing]_vars

\* ------------------------------------------------------ language generation
StopAfterAttempt == 3       \* tenacity.stop_after_attempt(3)

UserMessages == {"", "CENA", "zapis8 na zavtra", "kakie procedury", "bolit"}

\* what client.chat.completions.create does: a text, no choices, an empty
\* text, or an exception
ApiOutcomes == {"content", "no_choices", "empty_content", "raises"}

ContainsAny(text, words) == \E w \in words : Contains(text, w)

\* _get_fallback_response: which of its texts is returned
get_fallback_response(request) ==
    LET message_lower == Lower(request.user_message)
    IN  CASE ContainsAny(message_lower, {"cena", "stoimost8", "skol8ko"}) ->
                 "fallback_pricing"
          [] ContainsAny(message_lower, {"zapis8", "zapisat8sq", "vremq"}) ->
                 "fallback_booking"
          [] request.intent = "emergency" -> "fallback_emergency"
          [] ContainsAny(message_lower, {"procedur", "kosmetolog", "konsul8taciq"}) ->
                 "fallback_procedures"
          [] OTHER -> "fallback_general"

\* the body of generate_response after the completion request: its value and
\* whether an exception leaves the function
generate_response_body(request, api) ==
    IF api = "content"
    THEN [raised |-> FALSE, value |-> "clean_content"]
    ELSE [raised |-> FALSE, value |-> get_fallback_response(request)]

\* tenacity.retry around the function: another attempt only when an
\* exception left it and fewer than StopAfterAttempt were made
retry_wanted(raised, attempts) == raised /\ attempts < StopAfterAttempt

\* generate_response up to its await of the completion request
RequestCompletion ==
    /\ gen_pc = "attempt"
    /\ gen_attempts < StopAfterAttempt
    /\ \E api \in ApiOutcomes : gen_api' = api
    /\ gen_attempts' = gen_attempts + 1
    /\ gen_pc' = "completed"
    /\ UNCHANGED <<now, calendarConfigured, users, poll, dialogue, durable, req, classifier,
                   sessions, availability, codec, parsing, gen_request, gen_response>>

\* the rest of generate_response and the decision of the retry wrapper
ReturnResponse ==
    /\ gen_pc = "completed"
    /\ LET body == generate_response_body(gen_request, gen_api)
       IN  IF retry_wanted(body.raised, gen_attempts)
           THEN gen_pc' = "attempt" /\ gen_response' = gen_response
           ELSE /\ gen_pc' = "done"
                /\ gen_response' = IF body.raised THEN "RetryError" ELSE body.value
    /\ UNCHANGED <<now, calendarConfigured, users, poll, dialogue, durable, req, classifier,
                   sessions, availability, codec, parsing, gen_request, gen_api,
                   gen_attempts>>

InitGeneration ==
    /\ now = 0
    /\ calendarConfigured = TRUE
    /\ stage = [u \in Users |-> "none"]
    /\ data = [u \in Users |-> EmptyData]
    /\ flowNo = [u \in Users |-> 0]
    /\ calendar = {}
    /\ eventSeq = 0
    /\ bookings = <<>>
    /\ reminders = <<>>
    /\ fetch = [u \in Users |-> NoFetch]
    /\ req = [r \in Req |-> InitReq]
    /\ poll = InitPoll
    /\ users = Users
    /\ ClassifierIdle
    /\ SessionsIdle
    /\ AvailabilityIdle
    /\ CodecIdle
    /\ ParsingIdle
    /\ gen_request \in [intent : valid_intents, user_message : UserMessages]
    /\ gen_pc = "attempt"
    /\ gen_api = "none"
    /\ gen_attempts = 0
    /\ gen_response = "unset"

NextGeneration == RequestCompletion \/ ReturnResponse

SpecGeneration == InitGeneration /\ [][NextGeneration]_vars

\* ------------------------------------------------------------------ claims
RowsBy(r) == {i \in DOMAIN bookings : bookings[i].by = r}
EventsBy(r) == {e \in calendar : e.by = r}
RemindersBy(r) == {i \in DOMAIN reminders : reminders[i].by = r}
RemindersOf(booking_id) == {i \in DOMAIN reminders : reminders[i].booking_id = booking_id}
TypesBy(r) == {reminders[i].reminder_type : i \in RemindersBy(r)}
InFlight(r) == req[r].pc \notin {"idle", "done"}

\* C1: a commit that runs to its end has inserted exactly one Booking row.
C1_ExactlyOneBookingRow ==
    \A r \in Req :
        (req[r].pc = "done" /\ req[r].outcome = "success")
            => Cardinality(RowsBy(r)) = 1

\* C2: a Booking row is confirmed iff its commit created a calendar event, and
\* then it carries that event's id; every other row is pending without an
\* event id.
C2_ConfirmedIffEventCreated ==
    \A i \in DOMAIN bookings :
        LET b == bookings[i]
        IN  /\ b.status = "confirmed" <=> EventsBy(b.by) # {}
            /\ b.status = "confirmed"
                 => b.calendar_event_id \in {e.id : e \in EventsBy(b.by)}
            /\ b.status # "confirmed"
                 => b.status = "pending" /\ b.calendar_event_id = NoEvent

\* C3: when the race check finds the selected interval occupied, the commit
\* ends with the slot-occupied outcome: no calendar event, no Booking row, the
\* conversation state cleared.
C3_SlotOccupiedOutcome ==
    \A r \in Req :
        req[r].calResult = "occupied"
            => /\ req[r].pc = "done"
               /\ req[r].outcome = "slot_occupied"
               /\ RowsBy(r) = {}
               /\ EventsBy(r) = {}

\* C4: commits of different users for the same interval create at most one
\* calendar event for it and at most one confirmed Booking row.
C4_OneEventPerInterval ==
    /\ \A e1, e2 \in calendar :
          (e1 # e2 /\ req[e1.by].user # req[e2.by].user)
              => ~Overlaps(e1.start, e1.start + SlotDuration,
                           e2.start, e2.start + SlotDuration)
    /\ \A i, j \in DOMAIN bookings :
          (bookings[i].user_id # bookings[j].user_id
             /\ bookings[i].status = "confirmed" /\ bookings[j].status = "confirmed")
              => bookings[i].calendar_slot # bookings[j].calendar_slot

\* C5: of two final confirmations of one user for the same conversation
\* state, at most one creates a calendar event and at most one inserts
\* Booking rows.
C5_DoubleSubmitOnce ==
    \A r1, r2 \in Req :
        (r1 # r2 /\ req[r1].user # NoUser /\ req[r1].user = req[r2].user
           /\ req[r1].flow = req[r2].flow)
            => /\ ~(EventsBy(r1) # {} /\ EventsBy(r2) # {})
               /\ ~(RowsBy(r1) # {} /\ RowsBy(r2) # {})

\* C6: when a commit has finished and left a confirmed Booking row whose
\* appointment is more than one day ahead, that row has exactly two reminders,
\* a day_before and an hour_before one.
C6_TwoRemindersForConfirmed ==
    \A r \in Req :
        req[r].pc = "done"
            => \A i \in RowsBy(r) :
                 (bookings[i].status = "confirmed"
                    /\ bookings[i].calendar_slot - DayBeforeLead > now)
                     => /\ Cardinality(RemindersOf(i)) = 2
                        /\ {reminders[k].reminder_type : k \in RemindersOf(i)}
                             = {"day_before", "hour_before"}

\* C7: every Reminder row references a Booking row whose status is confirmed.
C7_RemindersOnlyForConfirmed ==
    \A k \in DOMAIN reminders :
        /\ reminders[k].booking_id \in DOMAIN bookings
        /\ bookings[reminders[k].booking_id].status = "confirmed"

\* C8: after a calendar failure other than an occupied slot, or without
\* calendar credentials, the commit goes on with status pending and no event
\* id: the rows it inserts are pending without an event id, it creates no
\* reminder, and an operator notice it sends asks for manual confirmation.
C8_CalendarFailureKeepsPending ==
    \A r \in Req :
        req[r].calResult \in {"error", "unconfigured"}
            => /\ req[r].pc \in {"db1", "db2", "notify", "clear", "except"}
               /\ req[r].booking_status = "pending"
               /\ req[r].calendar_event_id = NoEvent
               /\ req[r].pc \in {"db2", "notify", "clear"} => RowsBy(r) # {}
               /\ \A i \in RowsBy(r) : /\ bookings[i].status = "pending"
                                       /\ bookings[i].calendar_event_id = NoEvent
               /\ RemindersBy(r) = {}
               /\ req[r].notice \in {"none", "manual"}

\* C8 witness: a commit whose calendar call failed is about to finish with a
\* pending row, no reminder and the manual-confirmation notice sent.
C8_Witness ==
    \E r \in Req :
        /\ req[r].calResult = "error"
        /\ req[r].pc = "clear"
        /\ req[r].notice = "manual"
        /\ Cardinality(RowsBy(r)) >= 1
        /\ RemindersBy(r) = {}

DayAdded(r) ==
    /\ Len(reminders') = Len(reminders) + 1
    /\ reminders'[Len(reminders')].reminder_type = "day_before"
    /\ reminders'[Len(reminders')].by = r

HourAdded(r) ==
    /\ Len(reminders') = Len(reminders) + 1
    /\ reminders'[Len(reminders')].reminder_type = "hour_before"
    /\ reminders'[Len(reminders')].by = r

C10_StateClearedOnFinish ==
    [][ \A r \in Req :
          (InFlight(r) /\ req'[r].pc = "done")
              => /\ stage'[req[r].user] = "none"
                 /\ data'[req[r].user] = EmptyData
      ]_vars

\* C11: a failure of the operator notification leaves the Booking rows as they
\* were: neither the failing step nor the except clause that handles it
\* changes, removes or adds a row.
C11_NotifyFailureKeepsRows ==
    [][ \A r \in Req :
          \/ (req[r].pc = "notify" /\ req'[r].pc = "except")
          \/ (req[r].pc = "except" /\ req[r].outcome = "admin_failed"
                 /\ req'[r].pc = "done")
          => bookings' = bookings
      ]_vars

\* C11 witness: the operator notification has failed, the handler is in its
\* except clause and both rows it inserted are in the table.
C11_Witness ==
    \E r \in Req :
        /\ req[r].pc = "except"
        /\ req[r].outcome = "admin_failed"
        /\ Cardinality(RowsBy(r)) = 2
        /\ \E i \in RowsBy(r) : bookings[i].status = "confirmed"

NonTerminalStages == {"booking_procedure_confirmation", "booking_time_selection",
                      "booking_contact_info", "booking_final_confirmation"}

C14_LateSlotsKeepCancelled ==
    [][ \A u \in Users, t \in Tasks :
          (fetch[u][t] # "none" /\ fetch'[u][t] # fetch[u][t] /\ stage[u] = "none")
              => /\ stage'[u] = "none"
                 /\ data'[u].available_slots = <<>>
      ]_vars

\* C15: in time selection a slot index outside 0..Len(list)-1, negative or
\* not a number, is rejected: the stage and the stored data stay as they are.
C15_BadIndexRejected ==
    [][ \A u \in Users, text \in SlotIndexInputs :
          (TimeSlotSelected(u, text)
             /\ PyInt(text) \notin 0..(Len(data[u].available_slots) - 1))
              => UNCHANGED <<stage, data>>
      ]_vars

\* C16: when the availability query yields no slots the handler ends with the
\* state cleared, and the step into time selection is taken only with a slot
\* list computed from a busy list the calendar really returned.
C16_NoSlotsNoTimeSelection ==
    [][ \A u \in Users, t \in Tasks :
          /\ (fetch[u][t] = "running" /\ fetch'[u][t] = "none")
                => (stage'[u] = "none" /\ data'[u] = EmptyData)
          /\ (fetch[u][t] \in {"ok", "http_error"} /\ fetch'[u][t] = "none"
                 /\ stage'[u] = "booking_time_selection")
                => fetch[u][t] = "ok"
      ]_vars

\* C17: the stages are entered in order, each with what its predecessor
\* stored, and a commit starts only from the final confirmation with a
\* procedure, a selected slot and contact info in the state.
C17_StagesInOrder ==
    [][ \A u \in Users :
          /\ (stage'[u] = "booking_time_selection" /\ stage[u] # stage'[u])
                => stage[u] \in {"booking_procedure_confirmation",
                                 "booking_final_confirmation"}
          /\ (stage'[u] = "booking_contact_info" /\ stage[u] # stage'[u])
                => (stage[u] = "booking_time_selection"
                      /\ data'[u].selected_slot # NoSlot)
          /\ (stage'[u] = "booking_final_confirmation" /\ stage[u] # stage'[u])
                => (stage[u] = "booking_contact_info"
                      /\ data'[u].selected_slot # NoSlot
                      /\ data'[u].contact_info # "None")
          /\ \A r \in Req :
                (req[r].pc = "idle" /\ req'[r].pc # "idle" /\ req'[r].user = u)
                    => /\ stage[u] = "booking_final_confirmation"
                       /\ data[u].procedure # "None"
                       /\ data[u].selected_slot # NoSlot
                       /\ data[u].contact_info # "None"
      ]_vars

\* C18: page navigation changes neither the stage nor the stored slot list,
\* procedure and selection, whatever the page number.
C18_PaginationKeepsState ==
    [][ \A u \in Users, page \in PageInputs :
          TimePagination(u, page) => UNCHANGED <<stage, data>>
      ]_vars

\* the poller has just fetched its list
Picked == poll.pc = "sleep" /\ poll'.pc = "send"

C20_CancelledStaysCancelled ==
    [][ \A k \in DOMAIN reminders :
          reminders[k].status = "cancelled" => reminders'[k].status = "cancelled"
      ]_vars

\* C21: once cancel_booking has returned true for a calendar event, no
\* reminder created by the commit that owns the event is pending.
C21_CancelledEventHasNoPendingReminder ==
    \A e \in calendar :
        e.cancel_ok => \A k \in DOMAIN reminders :
                          reminders[k].by = e.by => reminders[k].status # "pending"

HasKeyword(text, i) ==
    \E k \in DOMAIN INTENT_KEYWORDS(i) : Contains(text, INTENT_KEYWORDS(i)[k])

HasExclusion(text, i) ==
    \E e \in DOMAIN INTENT_EXCLUSIONS(i) : Contains(text, INTENT_EXCLUSIONS(i)[e])

Classified == intent # "unset"

\* C22: a message whose normalized text contains an emergency keyword and no
\* emergency exclusion phrase is classified as emergency, whatever booking or
\* pricing keywords, patterns or pricing exclusions it also contains.
C22_EmergencyHasPriority ==
    LET text == normalize_message(message)
    IN  (Classified /\ HasKeyword(text, "emergency") /\ ~HasExclusion(text, "emergency"))
            => intent = "emergency"

C22_Witness ==
    LET text == normalize_message(message)
    IN  /\ intent = "emergency"
        /\ HasKeyword(text, "booking")
        /\ HasExclusion(text, "pricing")

\* C23: a message whose normalized text contains a pricing exclusion phrase is
\* never classified as pricing by the rules, although a pricing keyword occurs
\* in it; when no emergency or booking keyword and no aftercare pattern occurs
\* either, the rules answer consultation.
C23_PricingExclusionSuppressesPricing ==
    LET text == normalize_message(message)
    IN  (Classified /\ HasExclusion(text, "pricing"))
            => /\ classify_by_keywords_and_patterns(message) # "pricing"
               /\ intent # "pricing"
               /\ gpt_intent = "not_called"
               /\ (/\ ~HasKeyword(text, "emergency")
                   /\ ~HasKeyword(text, "booking")
                   /\ ~MatchesPatterns(text, "aftercare"))
                      => intent = "consultation"

C23_Witness ==
    LET text == normalize_message(message)
    IN  /\ intent = "consultation"
        /\ HasExclusion(text, "pricing")
        /\ HasKeyword(text, "pricing")
        /\ ~HasKeyword(text, "emergency")

\* C24: classify_intent returns the intent of the rules exactly when its
\* confidence reaches that intent's threshold (emergency 0.3, booking and
\* pricing 0.4, aftercare 0.5, consultation 0.0, any other 0.5), without
\* calling the external model; otherwise it returns what the external model
\* call returned, unchanged.
C24_ThresholdDecidesDelegation ==
    Classified =>
        LET k == classify_by_keywords_and_patterns(message)
            tenths == get_confidence_score(message, k)
            limit == CASE k = "emergency" -> 3
                       [] k \in {"booking", "pricing"} -> 4
                       [] k = "aftercare" -> 5
                       [] k = "consultation" -> 0
                       [] OTHER -> 5
        IN  IF tenths >= limit
            THEN intent = k /\ gpt_intent = "not_called"
            ELSE gpt_intent \in valid_intents /\ intent = gpt_intent

C24_Witness ==
    /\ gpt_intent = "booking"
    /\ intent = "booking"
    /\ classify_by_keywords_and_patterns(message) = "general"

\* C25: a process_message call of a user with the same text as that user's
\* previous classified query, less than 300 seconds after it, reuses the cached
\* intent without classifying again; a different text or an age of 300 seconds
\* or more classifies again.
C25_SameQueryWithinTtlReusesIntent ==
    [][\A u \in Users, m \in Queries :
          ProcessMessage(u, m) =>
              LET same == /\ prev_classified[u].query = m
                          /\ clock - prev_classified[u].at < CacheTtl
              IN  (classify_calls' = classify_calls) <=> same]_vars

\* the entries a handler writes into the session dictionary
SameEntries(written, returned) ==
    /\ written.last_intent # "None" => returned.last_intent = written.last_intent
    /\ written.last_query # "None" => returned.last_query = written.last_query
    /\ written.intent_timestamp # NoTime
          => returned.intent_timestamp = written.intent_timestamp
    /\ written.conversation_history # 0
          => returned.conversation_history = written.conversation_history
    /\ written.user_profile # "None" => returned.user_profile = written.user_profile

\* C26: after update_user_session(user, session) the next get_user_session(user)
\* returns the updated session: every entry written into the session before the
\* update is readable at the same level of what is returned.
C26_UpdatedSessionIsReturned ==
    [][\A u \in Users :
          (/\ Len(sessions_cache'[u]) > Len(sessions_cache[u])
           /\ Len(sessions_cache'[u]) >= 2)
              => SameEntries(sessions_cache'[u][2],
                             get_user_session(sessions_cache', u)[1])]_vars

SlotsAsked == slots_returned # NotAsked

ReturnedStarts == {slots_returned[i] : i \in DOMAIN slots_returned}

\* C27: every slot get_available_slots returns starts at or after now + 2
\* hours, or at or after 09:00 of the next day when now is at or past the
\* cutoff hour, and on a day from Monday to Saturday.
C27_SlotsRespectLeadTimeAndWorkingDays ==
    SlotsAsked =>
        \A s \in ReturnedStarts :
            /\ IF HourOf(wall) >= 18
               THEN s >= (DayOf(wall) + 1) * 1440 + 9 * 60
               ELSE s >= wall + 120
            /\ (s \div 1440) % 7 \in 0..5

\* C28: no returned slot overlaps a busy interval that was passed to the
\* generator (slot_start < busy_end and slot_end > busy_start); a slot that
\* only touches a busy interval is kept: when the hour after a returned slot
\* of the same working day is not returned, it overlaps a busy interval.
C28_NoReturnedSlotOverlapsBusy ==
    SlotsAsked =>
        /\ \A s \in ReturnedStarts, b \in busy_passed :
              ~(s < b[2] /\ s + 60 > b[1])
        /\ \A i \in DOMAIN slots_returned :
              LET next == slots_returned[i] + 60
              IN  (/\ i < 50
                   /\ next + 60 <= (next \div 1440) * 1440 + 18 * 60
                   /\ next \notin ReturnedStarts)
                      => \E b \in busy_passed : next < b[2] /\ next + 60 > b[1]

C28_Witness ==
    /\ SlotsAsked
    /\ \E s \in ReturnedStarts, b \in busy_passed : s = b[2]
    /\ \E s \in ReturnedStarts, b \in busy_passed : s + 60 = b[1]

\* the seconds since the start of the month's day 0 in UTC
Instant(dt) == ((dt.day * 24 + dt.hour) * 60 + dt.minute - dt.offset) * 60 + dt.second

SameMoment(a, b) ==
    /\ a.year = b.year /\ a.month = b.month
    /\ Instant(a) = Instant(b)
    /\ a.microsecond = b.microsecond
    /\ a.offset = b.offset

\* C29: Slot.deserialize(slot.serialize()) has the start and end of the
\* original slot, as instants and with the same UTC offset, for every slot
\* whose datetimes are aware; whatever was deserialized, start and end carry
\* a timezone.
C29_SerializeRoundTrip ==
    slot_back.kind = "Slot" =>
        /\ slot_back.start.offset # NoOffset
        /\ slot_back.end.offset # NoOffset
        /\ slot_given.start.offset # NoOffset
              => /\ SameMoment(slot_back.start, slot_given.start)
                 /\ SameMoment(slot_back.end, slot_given.end)

C29_Witness ==
    /\ slot_back.kind = "Slot"
    /\ slot_data.start.kind = "str"
    /\ slot_given.start.offset = 0 - 300
    /\ slot_given.start.microsecond # 0
    /\ slot_back.start = slot_given.start

\* the texts the claim is about: no text, one line, or a text whose only
\* line break is its first or its last character
LineBreaks(t) == {i \in 1..Len(t) : Char(t, i) = "\n"}
OneLineOrEdgeBreak(t) ==
    \/ t = NoText
    \/ LineBreaks(t) = {}
    \/ LineBreaks(t) = {1}
    \/ LineBreaks(t) = {Len(t)}

\* C30: for every contact text that is empty, a single line, or has its only
\* line break at the start or the end, the commit derives the name and the
\* phone without raising, and the phone is the placeholder because there is
\* no second line.
C30_ContactParsedWithoutRaising ==
    (parse_error # "unset" /\ OneLineOrEdgeBreak(contact_text))
        => /\ parse_error = "no"
           /\ client_phone = PhonePlaceholder
           /\ ~Truthy(contact_text) => client_name = NamePlaceholder

\* C33: process_message never lets an exception of session access,
\* classification, retrieval, generation or storage reach its caller: after
\* any such failure it has returned the error text with the clinic phone and
\* intent 'error'.
C33_ProcessMessageNeverPropagates ==
    pm_return.outcome \notin {"none", "ok"}
        => /\ ~pm_return.raised
           /\ pm_return.text = "error_response"
           /\ intent = "error"

C33_Witness ==
    /\ pm_return.outcome = "fails_after_update"
    /\ intent = "error"
    /\ \E u \in Users : Len(sessions_cache[u]) >= 2

\* C31: a generate_response call whose completion request failed is tried
\* again, up to StopAfterAttempt requests, before the fallback text is returned:
\* when the call ends with the fallback after a request that raised, all
\* StopAfterAttempt requests were made.
C31_FallbackOnlyAfterRetries ==
    (gen_pc = "done" /\ gen_api = "raises") => gen_attempts = StopAfterAttempt

\* C32: in every commit the calendar attempt (race check, then insertion) is
\* over before the commit inserts a Booking row, and the commit creates a
\* reminder only when its Booking row exists.
C32_CalendarThenRecordThenReminders ==
    [][\A r \in Req :
         /\ (Len(bookings') > Len(bookings) /\ bookings'[Len(bookings')].by = r)
               => /\ req[r].calResult # "none"
                  /\ calendarConfigured => req[r].calResult \in {"event", "error", "occupied"}
         /\ (req[r].pc \in {"cal_check", "cal_insert"} /\ req'[r] # req[r])
               => RowsBy(r) = {}
         /\ (\E e \in calendar' \ calendar : e.by = r)
               => RowsBy(r) = {} /\ req[r].pc = "cal_insert"
         /\ (Len(reminders') > Len(reminders) /\ reminders'[Len(reminders')].by = r)
               => reminders'[Len(reminders')].booking_id \in RowsBy(r)]_vars

C32_Witness ==
    \E r \in Req :
        /\ \E e \in calendar : e.by = r
        /\ RowsBy(r) # {}
        /\ \E k \in DOMAIN reminders :
              reminders[k].by = r /\ reminders[k].booking_id \in RowsBy(r)

\* C34: a commit tells the user that the booking was not created only when
\* it has persisted no Booking row: a commit that ended with the error text
\* has no Booking row of its own.
C34_ErrorTextOnlyWithoutRow ==
    \A r \in Req :
        (req[r].pc = "done" /\ req[r].outcome = "error") => RowsBy(r) = {}

\* C35: when a commit has finished, every event it inserted into the
\* calendar is pointed to by one of its Booking rows, also when a step after
\* the insertion failed.
C35_EveryEventHasItsRow ==
    \A r \in Req :
        req[r].pc = "done"
            => \A e \in EventsBy(r) :
                  \E i \in RowsBy(r) : bookings[i].calendar_event_id = e.id

SlotList(u) == {data[u].available_slots[i] : i \in DOMAIN data[u].available_slots}

\* C36: in the contact and final-confirmation stages, and when a commit
\* reads the state, the stored selected slot is an element of the stored
\* candidate list; change_time goes back to time selection and leaves the
\* list and the procedure as they are.
C36_SelectedSlotIsCandidate ==
    [][\A u \in Users :
         /\ stage'[u] \in {"booking_contact_info", "booking_final_confirmation"}
               => data'[u].selected_slot \in {data'[u].available_slots[i] :
                                                 i \in DOMAIN data'[u].available_slots}
         /\ (\E r \in Req : req[r].pc = "get_data" /\ req[r].user = u
                              /\ req'[r].pc \in {"cal_check", "db1"})
               => data[u].selected_slot \in SlotList(u)
         /\ ChangeTime(u)
               => /\ stage'[u] = "booking_time_selection"
                  /\ data'[u].available_slots = data[u].available_slots
                  /\ data'[u].procedure = data[u].procedure]_vars

\* C37: whenever the rules return emergency, booking, pricing or aftercare,
\* the confidence computed for that intent reaches that intent's threshold;
\* the external model is asked only for a message whose normalized text is
\* empty, for which the rules return general.
C37_RuleIntentsMeetTheirThreshold ==
    Classified =>
        LET k == classify_by_keywords_and_patterns(message)
        IN  /\ k \in {"emergency", "booking", "pricing", "aftercare"}
                 => get_confidence_score(message, k) >= thresholds(k)
            /\ gpt_intent # "not_called"
                 => normalize_message(message) = "" /\ k = "general"

C37_Witness ==
    /\ Classified
    /\ classify_by_keywords_and_patterns(message) = "aftercare"
    /\ ~HasKeyword(normalize_message(message), "aftercare")
    /\ get_confidence_score(message, "aftercare") = 6
    /\ gpt_intent = "not_called"

\* C38: each reminder message is delivered to its user at most once, also
\* when recording the sent status fails after the message was delivered.
C38_DeliveredAtMostOnce ==
    \A k \in DOMAIN reminders : reminders[k].delivered <= 1

ReminderIds == 1..Len(CommittedReminders)

\* C39: while the poller keeps running, every pending reminder whose
\* scheduled time has passed eventually is sent, failed or cancelled, also
\* when other reminders keep failing or a poll pass raises.
C39_DueReminderEventuallySettled ==
    \A k \in ReminderIds :
        (reminders[k].status = "pending" /\ reminders[k].scheduled_time <= now)
            ~> reminders[k].status \in {"sent", "failed", "cancelled"}

====
